---- MODULE Spec2Model ----
(***************************************************************************)
(* Ledger and reconciliation engine of wallet-service.                     *)
(*                                                                         *)
(* The database is PostgreSQL (src/src/config/database.ts:20-22) at its    *)
(* default isolation level: a plain SELECT reads the last committed row    *)
(* and never blocks; SELECT ... FOR UPDATE and UPDATE take the row lock    *)
(* and wait while another unit of work holds it; writes made with          *)
(* {transaction: t} become visible at t.commit() and vanish at             *)
(* t.rollback(); writes made without a transaction commit at once.         *)
(*                                                                         *)
(* Money is counted in integer units of half a minor unit (0.005 of the    *)
(* major unit), so that an amount with three fractional digits such as     *)
(* 100.125 is a value of the model (20025) and toFixed(2) is a rounding,   *)
(* not the identity.  A two-decimal value is an even number of units.      *)
(***************************************************************************)
EXTENDS Integers, Sequences, FiniteSets, TLC

\* Handler invocations in one behaviour.
MaxCalls == 2

Users == {"u1", "u2", "u3"}
Procs == {"p1", "p2"}
NoProc == "none"
NoRef == "noref"
NoWallet == "nowallet"

\* Wallet numbers a request may name; "w9" belongs to no wallet.
WalletNumbers == {"w1", "w2", "w9"}

\* Balances of the two wallets before the first modelled call.
InitBalances == {0, 4}

\* Amounts a transfer request may carry: 1 and 1.5 minor units.
TransferAmounts == {2, 3}

VARIABLES
  wallets,   \* committed rows of table wallets: wallet number -> [userId, balance]
  ledger,    \* committed rows of table transactions, id = index
  rowLock,   \* wallet number -> the process whose unit of work holds the row lock
  pc,        \* process -> position in the handler it runs
  loc,       \* process -> local variables of the handler it runs
  tx,        \* process -> uncommitted writes of its unit of work
  result,    \* process -> what its last handler returned
  calls,     \* handler invocations so far
  isProduction,  \* the deployment mode: NODE_ENV === 'production'
  users,     \* committed rows of table users, by email; a user's id stands for its email
  apiKeys    \* committed rows of table api_keys, id = index

vars == <<wallets, ledger, rowLock, pc, loc, tx, result, calls, isProduction, users, apiKeys>>

-----------------------------------------------------------------------------
\* Number.prototype.toFixed(2) followed by parseFloat: round to a whole minor
\* unit, a tie going to the larger value.
Round2(v) == IF v % 2 = 0 THEN v ELSE v + 1

\* A DECIMAL(20,2) column: PostgreSQL rounds a tie away from zero.
Decimal2(v) == IF v % 2 = 0 THEN v ELSE IF v > 0 THEN v + 1 ELSE v - 1

\* A column amount without a validator.
AmountValid_noMin(v) == TRUE

\* Validator min: 0.01 of Transaction.amount (0.01 is 2 units).
AmountValid(v) == v >= 2

\* Validator min: 0 of Wallet.balance.
BalanceValid(v) == v >= 0

\* Wallet.findOne({ where: { userId } }): the wallet number of the owner's row.
WalletOfUser(u) ==
  IF \E w \in DOMAIN wallets : wallets[w].userId = u
    THEN CHOOSE w \in DOMAIN wallets : wallets[w].userId = u
    ELSE NoWallet

\* Wallet.findOne({ where: { walletNumber } }).
WalletOfNumber(n) == IF n \in DOMAIN wallets THEN n ELSE NoWallet

\* A unit of work with nothing written yet (sequelize.transaction()).
EmptyTx == [balances |-> <<>>, rows |-> <<>>]

\* Local variables of a handler before its first statement.
InitLoc ==
  [senderId |-> "u1", recipientWalletNumber |-> "w9", amount |-> 0,
   senderWallet |-> NoWallet, senderBalance |-> 0, newSenderBalance |-> 0,
   recipientWallet |-> NoWallet, recipientBalance |-> 0, newRecipientBalance |-> 0,
   event |-> "", reference |-> NoRef, status |-> "",
   transaction |-> 0, transactionStatus |-> "",
   wallet |-> NoWallet, oldBalance |-> 0,
   signature |-> "", caller |-> "",
   key |-> 0, keyIsActive |-> FALSE,
   message |-> ""]

\* The locals of p once its handler has returned: the arguments of a transfer
\* remain, everything else is gone.
ReturnedLoc(p) ==
  [InitLoc EXCEPT !.senderId = loc[p].senderId,
                  !.recipientWalletNumber = loc[p].recipientWalletNumber,
                  !.amount = IF loc[p].event = "" THEN loc[p].amount ELSE 0]

NoResult == [op |-> "none", success |-> FALSE, message |-> ""]

\* A row of table transactions for a transfer (Transaction.create in transferFunds).
TransferRow(owner, amount, senderNumber, recipientNumber) ==
  [userId |-> owner, type |-> "transfer", amount |-> Decimal2(amount),
   status |-> "success", reference |-> NoRef,
   senderWalletNumber |-> senderNumber, recipientWalletNumber |-> recipientNumber]

\* A row written by creditWallet: a success deposit with no reference.
CreditRow(owner, amount) ==
  [userId |-> owner, type |-> "deposit", amount |-> Decimal2(amount),
   status |-> "success", reference |-> NoRef,
   senderWalletNumber |-> NoWallet, recipientWalletNumber |-> NoWallet]

-----------------------------------------------------------------------------
\* A row createDepositTransaction / createWithdrawalTransaction inserts.
PendingRow(owner, type, amount, reference) ==
  [userId |-> owner, type |-> type, amount |-> Decimal2(amount),
   status |-> "pending", reference |-> reference,
   senderWalletNumber |-> NoWallet, recipientWalletNumber |-> NoWallet]

\* What u1 may have requested before the first modelled call: nothing, a
\* deposit of 2 minor units or a withdrawal of 2 minor units, reference r1.
InitRequests ==
  {<<>>, <<PendingRow("u1", "deposit", 4, "r1")>>,
         <<PendingRow("u1", "withdrawal", 4, "r1")>>}

\* The database after onboarding of u1 and u2 (u3 has no wallet), after
\* creditWallet has funded the wallets with one of the given balances and
\* after one of the given requests.
InitOf(balances, requests) ==
  /\ \E b1 \in balances, b2 \in balances, req \in requests :
       /\ wallets = ("w1" :> [userId |-> "u1", balance |-> b1])
                      @@ ("w2" :> [userId |-> "u2", balance |-> b2])
       /\ ledger = (IF b1 > 0 THEN <<CreditRow("u1", b1)>> ELSE <<>>)
                     \o (IF b2 > 0 THEN <<CreditRow("u2", b2)>> ELSE <<>>)
                     \o req
  /\ rowLock = [w \in {"w1", "w2"} |-> NoProc]
  /\ pc = [p \in Procs |-> "idle"]
  /\ loc = [p \in Procs |-> InitLoc]
  /\ tx = [p \in Procs |-> EmptyTx]
  /\ result = [p \in Procs |-> NoResult]
  /\ calls = 0
  /\ isProduction \in BOOLEAN
  /\ users = {"u1", "u2"}
  /\ apiKeys = <<>>

\* The database with the balances of InitBalances.
InitWith(requests) == InitOf(InitBalances, requests)

\* The state before the first modelled call: u1 has requested nothing, a
\* deposit or a withdrawal.
Init == InitWith(InitRequests)

\* A handler may start on a process that runs none.
CanStart(p) == pc[p] \in {"idle", "done"} /\ calls < MaxCalls

\* throw new Error(msg) inside the try block of transferFunds: control goes to
\* the catch block, which rolls back.
Throw(p, msg) ==
  /\ pc' = [pc EXCEPT ![p] = "t_rollback"]
  /\ loc' = [loc EXCEPT ![p].message = msg]

\* The row lock of wallet w can be taken by the unit of work of p.
LockFree(w, p) == rowLock[w] \in {NoProc, p}

-----------------------------------------------------------------------------
\* transferFunds, lines 55-63: the call and sequelize.transaction().
transferFunds(p, senderId, recipientWalletNumber, amount) ==
  /\ CanStart(p)
  /\ pc' = [pc EXCEPT ![p] = "t_lockSender"]
  /\ loc' = [loc EXCEPT ![p] = [InitLoc EXCEPT !.senderId = senderId,
                                   !.recipientWalletNumber = recipientWalletNumber,
                                   !.amount = amount]]
  /\ tx' = [tx EXCEPT ![p] = EmptyTx]
  /\ result' = [result EXCEPT ![p] = NoResult]
  /\ calls' = calls + 1
  /\ UNCHANGED <<wallets, ledger, rowLock, isProduction, users, apiKeys>>

\* A balance check that only refuses a negative balance.
InsufficientIfNegative(balance, amount) == balance < 0

\* Line 79: senderBalance < amount.
Insufficient(balance, amount) == balance < amount

\* Lines 66-81: SELECT ... FOR UPDATE of the sender's row, then the balance check.
t_lockSender(p) ==
  /\ pc[p] = "t_lockSender"
  /\ LET w == WalletOfUser(loc[p].senderId) IN
       IF w = NoWallet
         THEN /\ Throw(p, "Sender wallet not found")
              /\ UNCHANGED rowLock
         ELSE /\ LockFree(w, p)
              /\ rowLock' = [rowLock EXCEPT ![w] = p]
              /\ IF Insufficient(wallets[w].balance, loc[p].amount)
                   THEN /\ pc' = [pc EXCEPT ![p] = "t_rollback"]
                        /\ loc' = [loc EXCEPT ![p].message = "Insufficient balance",
                                              ![p].senderWallet = w,
                                              ![p].senderBalance = wallets[w].balance]
                   ELSE /\ pc' = [pc EXCEPT ![p] = "t_lockRecipient"]
                        /\ loc' = [loc EXCEPT ![p].senderWallet = w,
                                              ![p].senderBalance = wallets[w].balance]
  /\ UNCHANGED <<wallets, ledger, tx, result, calls, isProduction, users, apiKeys>>

\* Lines 83-100: SELECT ... FOR UPDATE of the recipient's row, the two checks,
\* and the sender's new balance.
t_lockRecipient(p) ==
  /\ pc[p] = "t_lockRecipient"
  /\ LET w == WalletOfNumber(loc[p].recipientWalletNumber) IN
       IF w = NoWallet
         THEN /\ Throw(p, "Recipient wallet not found")
              /\ UNCHANGED rowLock
         ELSE /\ LockFree(w, p)
              /\ rowLock' = [rowLock EXCEPT ![w] = p]
              /\ IF wallets[w].userId = loc[p].senderId
                   THEN Throw(p, "Cannot transfer to yourself")
                   ELSE /\ pc' = [pc EXCEPT ![p] = "t_saveSender"]
                        /\ loc' = [loc EXCEPT
                             ![p].recipientWallet = w,
                             ![p].recipientBalance = wallets[w].balance,
                             ![p].newSenderBalance =
                                Round2(loc[p].senderBalance - loc[p].amount)]
  /\ UNCHANGED <<wallets, ledger, tx, result, calls, isProduction, users, apiKeys>>

\* instance.save({ transaction: t }) of a wallet: the UPDATE is buffered in the
\* unit of work of p.
SaveInTx(p, w, balance) ==
  tx' = [tx EXCEPT ![p].balances = (w :> balance) @@ tx[p].balances]

\* Transaction.create(row, { transaction: t }): the INSERT is buffered in the
\* unit of work of p.
CreateInTx(p, row) ==
  tx' = [tx EXCEPT ![p].rows = Append(tx[p].rows, row)]

\* Lines 101-105: the sender's UPDATE (validated, and it may fail in the
\* database), then the recipient's new balance.
t_saveSender(p, dbFails) ==
  /\ pc[p] = "t_saveSender"
  /\ IF dbFails \/ ~BalanceValid(loc[p].newSenderBalance)
       THEN Throw(p, "write failed") /\ UNCHANGED tx
       ELSE /\ SaveInTx(p, loc[p].senderWallet, loc[p].newSenderBalance)
            /\ pc' = [pc EXCEPT ![p] = "t_saveRecipient"]
            /\ loc' = [loc EXCEPT ![p].newRecipientBalance =
                         Round2(loc[p].recipientBalance + loc[p].amount)]
  /\ UNCHANGED <<wallets, ledger, rowLock, result, calls, isProduction, users, apiKeys>>

\* Line 106: the recipient's UPDATE.
t_saveRecipient(p, dbFails) ==
  /\ pc[p] = "t_saveRecipient"
  /\ IF dbFails \/ ~BalanceValid(loc[p].newRecipientBalance)
       THEN Throw(p, "write failed") /\ UNCHANGED tx
       ELSE /\ SaveInTx(p, loc[p].recipientWallet, loc[p].newRecipientBalance)
            /\ pc' = [pc EXCEPT ![p] = "t_createSenderTx"]
            /\ UNCHANGED loc
  /\ UNCHANGED <<wallets, ledger, rowLock, result, calls, isProduction, users, apiKeys>>

\* Lines 109-126: the sender's ledger row.
t_createSenderTx(p, dbFails) ==
  /\ pc[p] = "t_createSenderTx"
  /\ IF dbFails \/ ~AmountValid(loc[p].amount)
       THEN Throw(p, "write failed") /\ UNCHANGED tx
       ELSE /\ CreateInTx(p, TransferRow(loc[p].senderId, loc[p].amount,
                                         loc[p].senderWallet, loc[p].recipientWallet))
            /\ pc' = [pc EXCEPT ![p] = "t_createRecipientTx"]
            /\ UNCHANGED loc
  /\ UNCHANGED <<wallets, ledger, rowLock, result, calls, isProduction, users, apiKeys>>

\* Lines 128-143: the recipient's ledger row.
t_createRecipientTx(p, dbFails) ==
  /\ pc[p] = "t_createRecipientTx"
  /\ IF dbFails \/ ~AmountValid(loc[p].amount)
       THEN Throw(p, "write failed") /\ UNCHANGED tx
       ELSE /\ CreateInTx(p, TransferRow(wallets[loc[p].recipientWallet].userId,
                                         loc[p].amount,
                                         loc[p].senderWallet, loc[p].recipientWallet))
            /\ pc' = [pc EXCEPT ![p] = "t_commit"]
            /\ UNCHANGED loc
  /\ UNCHANGED <<wallets, ledger, rowLock, result, calls, isProduction, users, apiKeys>>

\* The row locks of the unit of work of p are released at its end.
ReleaseLocks(p) == [w \in DOMAIN rowLock |-> IF rowLock[w] = p THEN NoProc ELSE rowLock[w]]

\* The wallet rows once the unit of work of p is published.
Published(p) ==
  [w \in DOMAIN wallets |->
     IF w \in DOMAIN tx[p].balances
       THEN [wallets[w] EXCEPT !.balance = tx[p].balances[w]]
       ELSE wallets[w]]

\* Lines 145-152: t.commit() publishes the buffered writes together.
t_commit(p) ==
  /\ pc[p] = "t_commit"
  /\ wallets' = Published(p)
  /\ ledger' = ledger \o tx[p].rows
  /\ rowLock' = ReleaseLocks(p)
  /\ tx' = [tx EXCEPT ![p] = EmptyTx]
  /\ pc' = [pc EXCEPT ![p] = "done"]
  /\ result' = [result EXCEPT ![p] =
       [op |-> "transferFunds", success |-> TRUE,
        message |-> "Transfer completed successfully"]]
  /\ loc' = [loc EXCEPT ![p] = ReturnedLoc(p)]
  /\ UNCHANGED <<calls, isProduction, users, apiKeys>>

\* A catch block that returns the failure but leaves the writes made so far in
\* place, as it would were they made without { transaction: t }.
t_rollback_keepsWrites(p) ==
  /\ pc[p] = "t_rollback"
  /\ wallets' = Published(p)
  /\ ledger' = ledger \o tx[p].rows
  /\ rowLock' = ReleaseLocks(p)
  /\ tx' = [tx EXCEPT ![p] = EmptyTx]
  /\ pc' = [pc EXCEPT ![p] = "done"]
  /\ result' = [result EXCEPT ![p] =
       [op |-> "transferFunds", success |-> FALSE, message |-> loc[p].message]]
  /\ loc' = [loc EXCEPT ![p] = ReturnedLoc(p)]
  /\ UNCHANGED <<calls, isProduction, users, apiKeys>>

\* A catch block that returns the failure without t.rollback(): the unit of
\* work stays open and keeps its row locks.
t_rollback_leavesOpen(p) ==
  /\ pc[p] = "t_rollback"
  /\ pc' = [pc EXCEPT ![p] = "done"]
  /\ result' = [result EXCEPT ![p] =
       [op |-> "transferFunds", success |-> FALSE, message |-> loc[p].message]]
  /\ loc' = [loc EXCEPT ![p] = ReturnedLoc(p)]
  /\ UNCHANGED <<wallets, ledger, rowLock, tx, calls, isProduction, users, apiKeys>>

\* Lines 153-157: the catch block, t.rollback() drops the buffered writes.
t_rollback(p) ==
  /\ pc[p] = "t_rollback"
  /\ rowLock' = ReleaseLocks(p)
  /\ tx' = [tx EXCEPT ![p] = EmptyTx]
  /\ pc' = [pc EXCEPT ![p] = "done"]
  /\ result' = [result EXCEPT ![p] =
       [op |-> "transferFunds", success |-> FALSE, message |-> loc[p].message]]
  /\ loc' = [loc EXCEPT ![p] = ReturnedLoc(p)]
  /\ UNCHANGED <<wallets, ledger, calls, isProduction, users, apiKeys>>

\* The row a process waits for: the one its pending SELECT ... FOR UPDATE names,
\* when another unit of work holds it.
WaitsFor(p) ==
  LET w == IF pc[p] = "t_lockSender" THEN WalletOfUser(loc[p].senderId)
           ELSE IF pc[p] = "t_lockRecipient"
                  THEN WalletOfNumber(loc[p].recipientWalletNumber)
                  ELSE NoWallet
  IN IF w # NoWallet /\ rowLock[w] \notin {NoProc, p} THEN rowLock[w] ELSE NoProc

\* PostgreSQL's deadlock detector: two units of work wait for each other's row
\* lock, the statement of one of them fails with "deadlock detected", which
\* transferFunds catches like any other error.
t_deadlock(p) ==
  /\ WaitsFor(p) # NoProc
  /\ WaitsFor(WaitsFor(p)) = p
  /\ Throw(p, "deadlock detected")
  /\ UNCHANGED <<wallets, ledger, rowLock, tx, result, calls, isProduction, users, apiKeys>>

TransferStep(p) ==
  \/ \E u \in Users, n \in WalletNumbers, a \in TransferAmounts : transferFunds(p, u, n, a)
  \/ t_lockSender(p)
  \/ t_lockRecipient(p)
  \/ \E f \in BOOLEAN : t_saveSender(p, f)
  \/ \E f \in BOOLEAN : t_saveRecipient(p, f)
  \/ \E f \in BOOLEAN : t_createSenderTx(p, f)
  \/ \E f \in BOOLEAN : t_createRecipientTx(p, f)
  \/ t_commit(p)
  \/ t_rollback(p)
  \/ t_deadlock(p)

NextTransfer == \E p \in Procs : TransferStep(p)

\* Transfers only: no deposit, withdrawal or refund runs.
SpecTransfer == Init /\ [][NextTransfer]_vars

-----------------------------------------------------------------------------
\* References a deposit or withdrawal may carry.
Refs == {"r1"}

\* Amounts of a deposit or withdrawal request: 2 minor units.
RequestAmounts == {4}

\* data.amount of a webhook, in minor units as the processor reports it.
WebhookAmounts == {2}

\* data.amount of a body the processor did not sign: what the processor
\* reports, or 6 minor units, a figure of the sender's choosing.
UnsignedAmounts == WebhookAmounts \cup {6}

\* Events handleWebhook dispatches on, and one it does not know.
Events == {"charge.success", "charge.failed", "transfer.success",
           "transfer.failed", "transfer.reversed", "unhandled"}

\* enum TransactionStatus.
TransactionStatus == {"pending", "success", "failed", "reversed"}

\* The x-paystack-signature header of a delivery: the HMAC-SHA512 of the body
\* under the secret key ("valid"), another string that has none of the
\* manual-test prefixes, a string that starts with test_sig_, or no header.
Signatures == {"valid", "invalid", "test_sig_", ""}

\* Lines 171-175: the prefixes that mark a manual test.
ManualTestPrefixes == {"test_sig_", "manual-trigger-", "public-status-"}

\* Lines 171-175: isManualTest.
isManualTest(signature) == signature # "" /\ signature \in ManualTestPrefixes

\* Line 178: shouldVerifySignature.
shouldVerifySignature(signature) ==
  isProduction \/ (~isManualTest(signature) /\ signature # "")

\* verifySignature, lines 241-255: hash === signature.
verifySignature(signature) == signature = "valid"

\* Lines 180-195: the message the signature check returns with, "" when the
\* delivery passes.
SignatureFailure(signature) ==
  IF shouldVerifySignature(signature)
    THEN IF signature = "" THEN "Missing signature"
         ELSE IF ~verifySignature(signature) THEN "Invalid webhook signature"
         ELSE ""
    ELSE ""

\* parseFloat(data.amount) / 100: minor units to the ledger's unit.
KoboToNaira(k) == 2 * k

\* Transaction.findOne({ where: { reference } }): the id of the row, 0 for null.
FindByReference(ref) ==
  IF \E i \in DOMAIN ledger : ledger[i].reference = ref
    THEN CHOOSE i \in DOMAIN ledger : ledger[i].reference = ref
    ELSE 0

\* Transaction.findOne({ where: { reference, type: WITHDRAWAL } }).
FindWithdrawalByReference(ref) ==
  IF \E i \in DOMAIN ledger : ledger[i].reference = ref /\ ledger[i].type = "withdrawal"
    THEN CHOOSE i \in DOMAIN ledger :
           ledger[i].reference = ref /\ ledger[i].type = "withdrawal"
    ELSE 0

\* A handler that is not transferFunds returns.
Return(p, op, success, message) ==
  /\ pc' = [pc EXCEPT ![p] = "done"]
  /\ result' = [result EXCEPT ![p] = [op |-> op, success |-> success, message |-> message]]
  /\ loc' = [loc EXCEPT ![p] = ReturnedLoc(p)]

\* The next statement of the handler of p, with its locals updated.
Goto(p, label, locals) ==
  /\ pc' = [pc EXCEPT ![p] = label]
  /\ loc' = [loc EXCEPT ![p] = locals]
  /\ UNCHANGED result

\* Transaction.updateStatus on the instance p holds: save() writes the columns
\* whose value differs from the one the instance was loaded with.
UpdateStatus(p, status) ==
  ledger' = IF loc[p].transactionStatus # status
              THEN [ledger EXCEPT ![loc[p].transaction].status = status]
              ELSE ledger

\* The unique index on transactions.reference.
ReferenceInUse(ref) == \E i \in DOMAIN ledger : ledger[i].reference = ref

\* An INSERT into a table whose reference column has no unique index.
createTransaction_noUniqueIndex(p, op, type, userId, amount, reference) ==
  /\ CanStart(p)
  /\ calls' = calls + 1
  /\ IF ~AmountValid(amount)
       THEN /\ UNCHANGED ledger
            /\ pc' = [pc EXCEPT ![p] = "done"]
            /\ result' = [result EXCEPT ![p] =
                 [op |-> op, success |-> FALSE, message |-> "write failed"]]
       ELSE /\ ledger' = Append(ledger, PendingRow(userId, type, amount, reference))
            /\ pc' = [pc EXCEPT ![p] = "done"]
            /\ result' = [result EXCEPT ![p] =
                 [op |-> op, success |-> TRUE, message |-> ""]]
  /\ loc' = [loc EXCEPT ![p] = InitLoc]
  /\ UNCHANGED <<wallets, rowLock, tx, isProduction, users, apiKeys>>

\* createDepositTransaction / createWithdrawalTransaction: one INSERT.
createTransaction(p, op, type, userId, amount, reference) ==
  /\ CanStart(p)
  /\ calls' = calls + 1
  /\ IF ReferenceInUse(reference) \/ ~AmountValid(amount)
       THEN /\ UNCHANGED ledger
            /\ pc' = [pc EXCEPT ![p] = "done"]
            /\ result' = [result EXCEPT ![p] =
                 [op |-> op, success |-> FALSE, message |-> "write failed"]]
       ELSE /\ ledger' = Append(ledger, PendingRow(userId, type, amount, reference))
            /\ pc' = [pc EXCEPT ![p] = "done"]
            /\ result' = [result EXCEPT ![p] =
                 [op |-> op, success |-> TRUE, message |-> ""]]
  /\ loc' = [loc EXCEPT ![p] = InitLoc]
  /\ UNCHANGED <<wallets, rowLock, tx, isProduction, users, apiKeys>>

\* walletService.ts lines 23-36.
createDepositTransaction(p, userId, amount, reference) ==
  createTransaction(p, "createDepositTransaction", "deposit", userId, amount, reference)

\* walletService.ts lines 38-53.
createWithdrawalTransaction(p, userId, amount, reference) ==
  createTransaction(p, "createWithdrawalTransaction", "withdrawal", userId, amount,
                    reference)

\* The first statement of the handler handleWebhook dispatches to.
FirstLabel(event) ==
  CASE event = "charge.success"    -> "c_find"
    [] event = "charge.failed"     -> "f_find"
    [] event = "transfer.success"  -> "ts_find"
    [] event = "transfer.failed"   -> "tf_find"
    [] event = "transfer.reversed" -> "tr_find"
    [] OTHER                       -> "done"

\* What handleWebhook returns when the handler of the event returns normally.
DoneMessage(event) ==
  CASE event = "charge.success"    -> "Charge successful"
    [] event = "charge.failed"     -> "Charge failed"
    [] event = "transfer.success"  -> "Transfer successful"
    [] event = "transfer.failed"   -> "Transfer failed"
    [] event = "transfer.reversed" -> "Transfer reversed"
    [] OTHER                       -> "Event not processed"

\* WalletController.handleWebhook, lines 70-85, and PaystackService.handleWebhook,
\* lines 151-231: the controller refuses a delivery without the header, the
\* service checks the signature and dispatches on the event.
handleWebhook(p, event, reference, amount, signature) ==
  /\ CanStart(p)
  /\ calls' = calls + 1
  /\ LET args == [InitLoc EXCEPT !.event = event, !.reference = reference,
                                 !.amount = amount, !.signature = signature]
         failure == IF signature = "" THEN "Missing signature"
                    ELSE SignatureFailure(signature)
     IN IF failure # ""
          THEN /\ pc' = [pc EXCEPT ![p] = "done"]
               /\ loc' = [loc EXCEPT ![p] = InitLoc]
               /\ result' = [result EXCEPT ![p] =
                    [op |-> "handleWebhook", success |-> FALSE, message |-> failure]]
          ELSE /\ pc' = [pc EXCEPT ![p] = FirstLabel(event)]
               /\ loc' = [loc EXCEPT ![p] =
                    IF FirstLabel(event) = "done" THEN InitLoc ELSE args]
               /\ result' = [result EXCEPT ![p] =
                    IF FirstLabel(event) = "done"
                      THEN [op |-> "handleWebhook", success |-> TRUE,
                            message |-> DoneMessage(event)]
                      ELSE NoResult]
  /\ UNCHANGED <<wallets, ledger, rowLock, tx, isProduction, users, apiKeys>>

\* PaystackService.handleWebhook returns to its caller.  The webhook controller
\* passes the outcome on; verifyDepositStatus ignores it, sets credited = true
\* and answers with success (walletController.ts lines 160-180).
ServiceReturn(p, success, message) ==
  IF loc[p].caller = "verifyDepositStatus"
    THEN Return(p, "verifyDepositStatus", TRUE, "credited")
    ELSE Return(p, "handleWebhook", success, message)

\* handleWebhook returns after the handler of the event returned normally.
WebhookDone(p) == ServiceReturn(p, TRUE, DoneMessage(loc[p].event))

\* The handler of the event threw: the catch block of handleWebhook, lines 232-235.
WebhookThrow(p, message) == ServiceReturn(p, FALSE, message)

\* Statuses the processor's verify call may report for a reference.
PaystackStatuses == {"success", "failed"}

\* WalletController.verifyDepositStatus, lines 107-162: the client's status
\* poll.  It looks the entry up, asks the processor, and when the processor
\* reports success for an entry not yet success it calls
\* PaystackService.handleWebhook with the signature 'manual-trigger-' + reference.
verifyDepositStatus(p, reference, paystackStatus, paystackAmount) ==
  /\ CanStart(p)
  /\ calls' = calls + 1
  /\ LET i == FindByReference(reference)
         signature == "manual-trigger-"
         args == [InitLoc EXCEPT !.event = "charge.success", !.reference = reference,
                                 !.amount = paystackAmount, !.signature = signature,
                                 !.caller = "verifyDepositStatus"]
         answer(success, message) ==
           /\ pc' = [pc EXCEPT ![p] = "done"]
           /\ loc' = [loc EXCEPT ![p] = InitLoc]
           /\ result' = [result EXCEPT ![p] =
                [op |-> "verifyDepositStatus", success |-> success, message |-> message]]
     IN IF i = 0 THEN answer(FALSE, "Transaction not found")
        ELSE IF ledger[i].status = "success" THEN answer(TRUE, "already credited")
        ELSE IF paystackStatus # "success" THEN answer(TRUE, "not credited")
        ELSE IF SignatureFailure(signature) # "" THEN answer(TRUE, "credited")
        ELSE /\ pc' = [pc EXCEPT ![p] = "c_find"]
             /\ loc' = [loc EXCEPT ![p] = args]
             /\ result' = [result EXCEPT ![p] = NoResult]
  /\ UNCHANGED <<wallets, ledger, rowLock, tx, isProduction, users, apiKeys>>

\* A look-up that reports success for a reference without an entry.
c_find_ignoresMissing(p) ==
  /\ pc[p] = "c_find"
  /\ LET i == FindByReference(loc[p].reference) IN
       IF i = 0 THEN WebhookDone(p)
       ELSE IF ledger[i].status = "success" THEN WebhookDone(p)
       ELSE Goto(p, "c_updateStatus",
                 [loc[p] EXCEPT !.transaction = i, !.transactionStatus = ledger[i].status])
  /\ UNCHANGED <<wallets, ledger, rowLock, tx, calls, isProduction, users, apiKeys>>

\* A look-up that does not stop at an entry already success.
c_find_noRecheck(p) ==
  /\ pc[p] = "c_find"
  /\ LET i == FindByReference(loc[p].reference) IN
       IF i = 0 THEN WebhookThrow(p, "Transaction not found")
       ELSE Goto(p, "c_updateStatus",
                 [loc[p] EXCEPT !.transaction = i, !.transactionStatus = ledger[i].status])
  /\ UNCHANGED <<wallets, ledger, rowLock, tx, calls, isProduction, users, apiKeys>>

\* processSuccessfulCharge, lines 264-286: look the entry up, stop when it is
\* missing or already success.
c_find(p) ==
  /\ pc[p] = "c_find"
  /\ LET i == FindByReference(loc[p].reference) IN
       IF i = 0 THEN WebhookThrow(p, "Transaction not found")
       ELSE IF ledger[i].status = "success" THEN WebhookDone(p)
       ELSE Goto(p, "c_updateStatus",
                 [loc[p] EXCEPT !.transaction = i, !.transactionStatus = ledger[i].status])
  /\ UNCHANGED <<wallets, ledger, rowLock, tx, calls, isProduction, users, apiKeys>>

\* Line 290: transaction.updateStatus(SUCCESS, data), written at once.
c_updateStatus(p) ==
  /\ pc[p] = "c_updateStatus"
  /\ UpdateStatus(p, "success")
  /\ Goto(p, "c_findWallet", [loc[p] EXCEPT !.transactionStatus = "success"])
  /\ UNCHANGED <<wallets, rowLock, tx, calls, isProduction, users, apiKeys>>

\* Lines 293-306 and 327-330: read the owner's wallet without a lock.
c_findWallet(p) ==
  /\ pc[p] = "c_findWallet"
  /\ LET w == WalletOfUser(ledger[loc[p].transaction].userId) IN
       IF w = NoWallet THEN WebhookThrow(p, "Wallet not found")
       ELSE Goto(p, "c_saveWallet",
                 [loc[p] EXCEPT !.wallet = w, !.oldBalance = wallets[w].balance])
  /\ UNCHANGED <<wallets, ledger, rowLock, tx, calls, isProduction, users, apiKeys>>

\* wallet.save() outside a unit of work: an UPDATE that waits for the row lock
\* and commits at once, or fails.
SaveWallet(p, balance, dbFails) ==
  /\ rowLock[loc[p].wallet] = NoProc
  /\ IF dbFails \/ ~BalanceValid(balance)
       THEN /\ UNCHANGED wallets
            /\ WebhookThrow(p, "write failed")
       ELSE /\ wallets' = [wallets EXCEPT ![loc[p].wallet].balance = balance]
            /\ WebhookDone(p)

\* Lines 299-326: the credit, computed from the balance read before; the
\* transaction.save() that follows writes metadata only.
c_saveWallet(p, dbFails) ==
  /\ pc[p] = "c_saveWallet"
  /\ SaveWallet(p, Round2(loc[p].oldBalance + KoboToNaira(loc[p].amount)), dbFails)
  /\ UNCHANGED <<ledger, rowLock, tx, calls, isProduction, users, apiKeys>>

\* processFailedCharge, lines 336-346.
f_find(p) ==
  /\ pc[p] = "f_find"
  /\ LET i == FindByReference(loc[p].reference) IN
       IF i = 0 THEN WebhookDone(p)
       ELSE Goto(p, "f_updateStatus",
                 [loc[p] EXCEPT !.transaction = i, !.transactionStatus = ledger[i].status])
  /\ UNCHANGED <<wallets, ledger, rowLock, tx, calls, isProduction, users, apiKeys>>

\* A failed charge that is acknowledged without being recorded.
f_updateStatus_notRecorded(p) ==
  /\ pc[p] = "f_updateStatus"
  /\ UNCHANGED ledger
  /\ WebhookDone(p)
  /\ UNCHANGED <<wallets, rowLock, tx, calls, isProduction, users, apiKeys>>

\* Line 341: transaction.updateStatus(FAILED, data).
f_updateStatus(p) ==
  /\ pc[p] = "f_updateStatus"
  /\ UpdateStatus(p, "failed")
  /\ WebhookDone(p)
  /\ UNCHANGED <<wallets, rowLock, tx, calls, isProduction, users, apiKeys>>

\* processTransferSuccess, lines 352-365.
ts_find(p) ==
  /\ pc[p] = "ts_find"
  /\ LET i == FindWithdrawalByReference(loc[p].reference) IN
       IF i = 0 THEN WebhookDone(p)
       ELSE Goto(p, "ts_updateStatus",
                 [loc[p] EXCEPT !.transaction = i, !.transactionStatus = ledger[i].status])
  /\ UNCHANGED <<wallets, ledger, rowLock, tx, calls, isProduction, users, apiKeys>>

\* Line 360: transaction.updateStatus(SUCCESS, data).
ts_updateStatus(p) ==
  /\ pc[p] = "ts_updateStatus"
  /\ UpdateStatus(p, "success")
  /\ WebhookDone(p)
  /\ UNCHANGED <<wallets, rowLock, tx, calls, isProduction, users, apiKeys>>

\* The look-up of processTransferFailed and processTransferReversed.
RefundFind(p, here, next) ==
  /\ pc[p] = here
  /\ LET i == FindWithdrawalByReference(loc[p].reference) IN
       IF i = 0 THEN WebhookDone(p)
       ELSE Goto(p, next,
                 [loc[p] EXCEPT !.transaction = i, !.transactionStatus = ledger[i].status])
  /\ UNCHANGED <<wallets, ledger, rowLock, tx, calls, isProduction, users, apiKeys>>

\* The status write of processTransferFailed and processTransferReversed.
RefundUpdateStatus(p, here, status, next) ==
  /\ pc[p] = here
  /\ UpdateStatus(p, status)
  /\ Goto(p, next, [loc[p] EXCEPT !.transactionStatus = status])
  /\ UNCHANGED <<wallets, rowLock, tx, calls, isProduction, users, apiKeys>>

\* The wallet read of the two refunds: a missing wallet is skipped silently.
RefundFindWallet(p, here, next) ==
  /\ pc[p] = here
  /\ LET w == WalletOfUser(ledger[loc[p].transaction].userId) IN
       IF w = NoWallet THEN WebhookDone(p)
       ELSE Goto(p, next, [loc[p] EXCEPT !.wallet = w, !.oldBalance = wallets[w].balance])
  /\ UNCHANGED <<wallets, ledger, rowLock, tx, calls, isProduction, users, apiKeys>>

\* The message of the TypeError a call of toFixed on a string throws.
NotAFunction == "(oldBalance + transaction.amount).toFixed is not a function"

\* The refund: (oldBalance + transaction.amount).toFixed(2), with the amount the
\* instance was loaded with.  The column is DECIMAL(20,2) and the attribute is
\* declared a number: where the driver hands the column over as a number the sum
\* is the new balance, where it hands it over as a string (PostgreSQL's numeric
\* is one unless a parser is installed) the sum is a string, toFixed is not a
\* function of it, and the handler throws before it writes.
RefundSaveWallet(p, here, dbFails, amountIsString) ==
  /\ pc[p] = here
  /\ IF amountIsString
       THEN /\ UNCHANGED wallets
            /\ WebhookThrow(p, NotAFunction)
       ELSE SaveWallet(p, Round2(loc[p].oldBalance + ledger[loc[p].transaction].amount),
                       dbFails)
  /\ UNCHANGED <<ledger, rowLock, tx, calls, isProduction, users, apiKeys>>

\* processTransferFailed, lines 367-403.
tf_find(p) == RefundFind(p, "tf_find", "tf_updateStatus")
tf_updateStatus(p) == RefundUpdateStatus(p, "tf_updateStatus", "failed", "tf_findWallet")
tf_findWallet(p) == RefundFindWallet(p, "tf_findWallet", "tf_saveWallet")
tf_saveWallet(p, dbFails, amountIsString) ==
  RefundSaveWallet(p, "tf_saveWallet", dbFails, amountIsString)

\* processTransferReversed, lines 405-440.
tr_find(p) == RefundFind(p, "tr_find", "tr_updateStatus")
tr_updateStatus(p) == RefundUpdateStatus(p, "tr_updateStatus", "reversed", "tr_findWallet")
tr_findWallet(p) == RefundFindWallet(p, "tr_findWallet", "tr_saveWallet")
tr_saveWallet(p, dbFails, amountIsString) ==
  RefundSaveWallet(p, "tr_saveWallet", dbFails, amountIsString)

\* updateTransactionStatus, walletService.ts lines 201-208: the look-up.
updateTransactionStatus(p, reference, status) ==
  /\ CanStart(p)
  /\ calls' = calls + 1
  /\ LET i == FindByReference(reference)
         args == [InitLoc EXCEPT !.reference = reference, !.status = status]
     IN IF i = 0
          THEN /\ pc' = [pc EXCEPT ![p] = "done"]
               /\ loc' = [loc EXCEPT ![p] = InitLoc]
               /\ result' = [result EXCEPT ![p] =
                    [op |-> "updateTransactionStatus", success |-> TRUE, message |-> ""]]
          ELSE /\ pc' = [pc EXCEPT ![p] = "u_updateStatus"]
               /\ loc' = [loc EXCEPT ![p] =
                    [args EXCEPT !.transaction = i, !.transactionStatus = ledger[i].status]]
               /\ result' = [result EXCEPT ![p] = NoResult]
  /\ UNCHANGED <<wallets, ledger, rowLock, tx, isProduction, users, apiKeys>>

\* Lines 210-212: transaction.updateStatus(status, metadata).
u_updateStatus(p) ==
  /\ pc[p] = "u_updateStatus"
  /\ UpdateStatus(p, loc[p].status)
  /\ Return(p, "updateTransactionStatus", TRUE, "")
  /\ UNCHANGED <<wallets, rowLock, tx, calls, isProduction, users, apiKeys>>

\* The amounts a delivery with the given header may carry: a body the
\* processor signed carries what the processor reports.
DeliveredAmounts(signature) ==
  IF verifySignature(signature) THEN WebhookAmounts ELSE UnsignedAmounts

ReconcileStep(p) ==
  \/ \E u \in Users, a \in RequestAmounts, r \in Refs : createDepositTransaction(p, u, a, r)
  \/ \E u \in Users, a \in RequestAmounts, r \in Refs :
       createWithdrawalTransaction(p, u, a, r)
  \/ \E e \in Events, r \in Refs, g \in Signatures :
       \E a \in DeliveredAmounts(g) : handleWebhook(p, e, r, a, g)
  \/ \E r \in Refs, st \in PaystackStatuses, a \in WebhookAmounts :
       verifyDepositStatus(p, r, st, a)
  \/ c_find(p)
  \/ c_updateStatus(p)
  \/ c_findWallet(p)
  \/ \E f \in BOOLEAN : c_saveWallet(p, f)
  \/ f_find(p)
  \/ f_updateStatus(p)
  \/ ts_find(p)
  \/ ts_updateStatus(p)
  \/ tf_find(p)
  \/ tf_updateStatus(p)
  \/ tf_findWallet(p)
  \/ \E f \in BOOLEAN, str \in BOOLEAN : tf_saveWallet(p, f, str)
  \/ tr_find(p)
  \/ tr_updateStatus(p)
  \/ tr_findWallet(p)
  \/ \E f \in BOOLEAN, str \in BOOLEAN : tr_saveWallet(p, f, str)

StatusUpdateStep(p) ==
  \/ \E r \in Refs, st \in TransactionStatus : updateTransactionStatus(p, r, st)
  \/ u_updateStatus(p)

NextReconcile == \E p \in Procs : TransferStep(p) \/ ReconcileStep(p)

\* Transfers, requests and processor events, without direct status updates.
SpecReconcile == Init /\ [][NextReconcile]_vars

NextWebhook == \E p \in Procs : ReconcileStep(p)

\* Requests, processor events and status polls, without transfers.
SpecWebhook == Init /\ [][NextWebhook]_vars

\* A withdrawal of u1 the processor has reported paid: createWithdrawalTransaction
\* followed by processTransferSuccess.
PaidWithdrawal ==
  [PendingRow("u1", "withdrawal", 4, "r1") EXCEPT !.status = "success"]

InitReversal == InitWith({<<PaidWithdrawal>>})

\* Deliveries of transfer.reversed and the steps of processTransferReversed.
ReversalStep(p) ==
  \/ \E r \in Refs, g \in Signatures :
       \E a \in DeliveredAmounts(g) : handleWebhook(p, "transfer.reversed", r, a, g)
  \/ tr_find(p)
  \/ tr_updateStatus(p)
  \/ tr_findWallet(p)
  \/ \E f \in BOOLEAN, str \in BOOLEAN : tr_saveWallet(p, f, str)

NextReversal == \E p \in Procs : ReversalStep(p)

\* Reversal notifications for a withdrawal that is success.
SpecReversal == InitReversal /\ [][NextReversal]_vars

Next == \E p \in Procs : TransferStep(p) \/ ReconcileStep(p) \/ StatusUpdateStep(p)

Spec == Init /\ [][Next]_vars
-----------------------------------------------------------------------------
\* Sums and pure views of the committed state, used to state the properties.

RECURSIVE SumBalances(_)
SumBalances(ws) ==
  IF ws = {} THEN 0
  ELSE LET w == CHOOSE x \in ws : TRUE
       IN  wallets[w].balance + SumBalances(ws \ {w})

\* The sum of all wallet balances.
TotalBalance == SumBalances(DOMAIN wallets)

RECURSIVE SumAmounts(_)
SumAmounts(ids) ==
  IF ids = {} THEN 0
  ELSE LET i == CHOOSE x \in ids : TRUE
       IN  ledger[i].amount + SumAmounts(ids \ {i})

\* The balance creditWallet gave the owner before the first modelled call.
InitialBalance(u) ==
  SumAmounts({i \in DOMAIN ledger :
                /\ ledger[i].userId = u
                /\ ledger[i].type = "deposit"
                /\ ledger[i].reference = NoRef})

\* Every process has returned, and each call so far ran on its own process.
Quiescent ==
  /\ \A p \in Procs : pc[p] \in {"idle", "done"}
  /\ calls = Cardinality({p \in Procs : pc[p] = "done"})

\* p has returned from a transferFunds call that committed.
Committed(p) ==
  pc[p] = "done" /\ result[p].op = "transferFunds" /\ result[p].success

\* p has returned from a transferFunds call.
Transferred(p) == pc[p] = "done" /\ result[p].op = "transferFunds"

\* The step is one of transferFunds on p.
TransferLabels ==
  {"t_lockSender", "t_lockRecipient", "t_saveSender", "t_saveRecipient",
   "t_createSenderTx", "t_createRecipientTx", "t_commit", "t_rollback"}

\* C1: a step of a run of transfers only leaves the sum of all wallet balances
\* unchanged (each committed transfer takes from the sender what it gives the
\* recipient).
Conservation == [][TotalBalance' = TotalBalance]_vars

\* C2: no wallet balance is negative, and when two transfers from the same
\* sender, the only calls made, have both committed, their amounts together do
\* not exceed the balance the sender had.
NoOverdraft ==
  /\ \A w \in DOMAIN wallets : wallets[w].balance >= 0
  /\ \A p, q \in Procs :
       (/\ p # q
        /\ Quiescent
        /\ Committed(p) /\ Committed(q)
        /\ loc[p].senderId = loc[q].senderId)
       => loc[p].amount + loc[q].amount <= InitialBalance(loc[p].senderId)

\* An amount with at most two fractional digits.
WholeAmount(a) == a % 2 = 0

\* A step that commits a transfer of an amount with a third fractional digit.
FractionalCommit ==
  \E p \in Procs : pc[p] = "t_commit" /\ pc'[p] = "done" /\ ~WholeAmount(loc[p].amount)

\* Transfers of amounts with at most two fractional digits keep the sum of all
\* wallet balances.
ConservationOfWholeAmounts == [][FractionalCommit \/ TotalBalance' = TotalBalance]_vars

\* Two committed transfers of amounts with at most two fractional digits from
\* the same sender, the only calls made, never exceed the sender's balance.
NoOverdraftOfWholeAmounts ==
  \A p, q \in Procs :
    (/\ p # q
     /\ Quiescent
     /\ Committed(p) /\ Committed(q)
     /\ loc[p].senderId = loc[q].senderId
     /\ WholeAmount(loc[p].amount) /\ WholeAmount(loc[q].amount))
    => loc[p].amount + loc[q].amount <= InitialBalance(loc[p].senderId)

\* The balances transferFunds leaves when it runs alone on balances b: from
\* wallet s to wallet r, amount a.
BalancesAfter(b, s, r, a) ==
  IF Insufficient(b[s], a) THEN b
  ELSE [b EXCEPT ![s] = Round2(b[s] - a), ![r] = Round2(b[r] + a)]

\* The committed balances, by wallet number.
Balances == [w \in DOMAIN wallets |-> wallets[w].balance]

\* The balances before the first modelled call.
InitialBalances == [w \in DOMAIN wallets |-> InitialBalance(wallets[w].userId)]

\* A process whose call deposits into the reference's entry has succeeded.
Charged(p) ==
  pc[p] = "done" /\ result[p] = [op |-> "handleWebhook", success |-> TRUE,
                                 message |-> "Charge successful"]

\* C3: once every call has returned, and the calls were one or more success
\* reconciliations for the deposit of reference r1, each carrying the amount
\* the processor signed (as every processed delivery does in production), the
\* owner's wallet holds its earlier balance plus the deposit's amount, once,
\* and the entry is success.
ReconciledOnce ==
  LET i == FindByReference("r1") IN
    (/\ isProduction
     /\ Quiescent
     /\ calls >= 1
     /\ \A p \in Procs : pc[p] = "done" => Charged(p)
     /\ i # 0
     /\ ledger[i].type = "deposit")
    => /\ ledger[i].status = "success"
       /\ wallets[WalletOfUser(ledger[i].userId)].balance
            = InitialBalance(ledger[i].userId) + ledger[i].amount

\* C4: when a transfer from w1 to w2 and one from w2 to w1, the only calls made
\* and neither hit by a failing write, have both returned, the balances are
\* those of running the two one after the other in some order.
OppositeTransfersSerial ==
  \A p, q \in Procs :
    (/\ p # q
     /\ Quiescent
     /\ Transferred(p) /\ Transferred(q)
     /\ result[p].message # "write failed" /\ result[q].message # "write failed"
     /\ loc[p].senderId = "u1" /\ loc[p].recipientWalletNumber = "w2"
     /\ loc[q].senderId = "u2" /\ loc[q].recipientWalletNumber = "w1")
    => \/ Balances = BalancesAfter(BalancesAfter(InitialBalances, "w1", "w2", loc[p].amount),
                                   "w2", "w1", loc[q].amount)
       \/ Balances = BalancesAfter(BalancesAfter(InitialBalances, "w2", "w1", loc[q].amount),
                                   "w1", "w2", loc[p].amount)

\* C5: a step of transferFunds other than its commit changes no wallet row and
\* no ledger row, a call that did not commit returns success = false, and the
\* commit changes the two wallet rows and adds the two ledger rows together.
TransferAtomicity ==
  [][\A p \in Procs :
       (pc[p] \in TransferLabels /\ pc'[p] # pc[p]) =>
         IF pc[p] = "t_commit"
           THEN /\ result'[p].success
                /\ Len(ledger') = Len(ledger) + 2
                /\ \A w \in DOMAIN wallets :
                     wallets'[w] # wallets[w] => w \in DOMAIN tx[p].balances
                /\ Cardinality(DOMAIN tx[p].balances) = 2
           ELSE /\ wallets' = wallets
                /\ ledger' = ledger
                /\ pc'[p] = "done" => ~result'[p].success]_vars

\* C5 happens: a transfer whose write failed has returned.
TransferFailedOnWrite ==
  \E p \in Procs :
    /\ pc[p] = "done"
    /\ result[p] = [op |-> "transferFunds", success |-> FALSE, message |-> "write failed"]

\* Credits and debits the success entries record against an owner.
CreditIds(u) ==
  {i \in DOMAIN ledger :
     /\ ledger[i].userId = u
     /\ ledger[i].status = "success"
     /\ \/ ledger[i].type = "deposit"
        \/ /\ ledger[i].type = "transfer"
           /\ WalletOfUser(u) = ledger[i].recipientWalletNumber}

DebitIds(u) ==
  {i \in DOMAIN ledger :
     /\ ledger[i].userId = u
     /\ ledger[i].status = "success"
     /\ \/ ledger[i].type = "withdrawal"
        \/ /\ ledger[i].type = "transfer"
           /\ WalletOfUser(u) = ledger[i].senderWalletNumber}

\* C6: every wallet's balance is the sum of its owner's success credits minus
\* the sum of the owner's success debits.
LedgerAgreement ==
  \A w \in DOMAIN wallets :
    wallets[w].balance
      = SumAmounts(CreditIds(wallets[w].userId)) - SumAmounts(DebitIds(wallets[w].userId))

\* C7: the commit of a transfer of amount x lowers the sender's balance by x,
\* raises the recipient's by x and adds two transfer rows in status success,
\* the sender's and the recipient's, with the two wallet numbers and amount x.
TransferEffect ==
  [][\A p \in Procs :
       (pc[p] = "t_commit" /\ pc'[p] = "done") =>
         LET s == loc[p].senderWallet
             r == loc[p].recipientWallet
             x == loc[p].amount
             n == Len(ledger)
             row(owner) ==
               [userId |-> owner, type |-> "transfer", amount |-> x,
                status |-> "success", reference |-> NoRef,
                senderWalletNumber |-> s, recipientWalletNumber |-> r]
         IN /\ wallets'[s].balance = wallets[s].balance - x
            /\ wallets'[r].balance = wallets[r].balance + x
            /\ Len(ledger') = n + 2
            /\ ledger'[n + 1] = row(loc[p].senderId)
            /\ ledger'[n + 2] = row(wallets[r].userId)]_vars

\* C8: when the balance read under the sender's lock is below the amount, the
\* transfer goes to its rollback with "Insufficient balance", having written
\* nothing, and the rollback returns that failure and changes no row.
InsufficientFundsRejected ==
  [][\A p \in Procs :
       /\ (/\ pc[p] = "t_lockSender" /\ pc'[p] # pc[p]
           /\ WalletOfUser(loc[p].senderId) # NoWallet
           /\ wallets[WalletOfUser(loc[p].senderId)].balance < loc[p].amount)
          => /\ pc'[p] = "t_rollback"
             /\ loc'[p].message = "Insufficient balance"
             /\ tx'[p] = EmptyTx
             /\ wallets' = wallets /\ ledger' = ledger
       /\ (/\ pc[p] = "t_rollback" /\ pc'[p] # pc[p]
           /\ loc[p].message = "Insufficient balance")
          => /\ result'[p] = [op |-> "transferFunds", success |-> FALSE,
                              message |-> "Insufficient balance"]
             /\ wallets' = wallets /\ ledger' = ledger]_vars

\* C8 happens: a transfer was refused for insufficient balance.
TransferRefusedInsufficient ==
  \E p \in Procs :
    /\ pc[p] = "done"
    /\ result[p] = [op |-> "transferFunds", success |-> FALSE,
                    message |-> "Insufficient balance"]

\* The status changes section 4.3 permits.
PermittedTransitions ==
  {<<"pending", "success">>, <<"pending", "failed">>, <<"success", "reversed">>}

\* C9: every change of an entry's status is pending -> success,
\* pending -> failed or success -> reversed.
StatusStateMachine ==
  [][\A i \in DOMAIN ledger :
       ledger'[i].status # ledger[i].status
         => <<ledger[i].status, ledger'[i].status>> \in PermittedTransitions]_vars

\* C10: the step of a success reconciliation that moves a deposit entry to
\* success also credits the owner's wallet.
ReconcileAtomic ==
  [][\A p \in Procs : \A i \in DOMAIN ledger :
       (/\ pc[p] \in {"c_find", "c_updateStatus", "c_findWallet", "c_saveWallet"}
        /\ pc'[p] # pc[p]
        /\ ledger[i].status # "success"
        /\ ledger'[i].status = "success")
       => LET w == WalletOfUser(ledger[i].userId)
          IN  /\ w # NoWallet
              /\ wallets'[w].balance
                   = wallets[w].balance + KoboToNaira(loc[p].amount)]_vars

\* C11: a success reconciliation that finds its entry already in status success
\* returns with a successful outcome and changes no wallet row and no ledger row.
AlreadyProcessedNoOp ==
  [][\A p \in Procs :
       LET i == FindByReference(loc[p].reference) IN
         (/\ pc[p] = "c_find" /\ pc'[p] # pc[p]
          /\ i # 0
          /\ ledger[i].status = "success")
         => /\ pc'[p] = "done"
            /\ result'[p].success
            /\ wallets' = wallets
            /\ ledger' = ledger]_vars

\* C11 happens: a charge.success delivery has returned successfully for the
\* entry of r1, which is success, and no balance has moved since the start, so
\* the delivery found the entry already success.
AlreadyProcessedReturned ==
  /\ \E p \in Procs : Charged(p)
  /\ FindByReference("r1") # 0
  /\ ledger[FindByReference("r1")].status = "success"
  /\ Balances = InitialBalances

\* The step is a credit of processSuccessfulCharge by p.
ChargeCredit(p) ==
  pc[p] = "c_saveWallet" /\ pc'[p] # pc[p] /\ wallets' # wallets

\* The credit p applies is an amount the processor reports, converted from
\* minor units.
CreditIsVerified(p) ==
  \E a \in WebhookAmounts :
    wallets'[loc[p].wallet].balance = loc[p].oldBalance + KoboToNaira(a)

\* C12: every credit a success reconciliation applies to a wallet is the amount
\* the processor verified, converted from minor units, whatever amount the
\* request carried.
CreditFromVerifiedAmount ==
  [][\A p \in Procs : ChargeCredit(p) => CreditIsVerified(p)]_vars

\* In production every credit is the amount the processor verified.
CreditFromVerifiedAmountInProduction ==
  [][\A p \in Procs : (isProduction /\ ChargeCredit(p)) => CreditIsVerified(p)]_vars

\* The statements of the handlers handleWebhook dispatches to.
WebhookLabels ==
  {"c_find", "c_updateStatus", "c_findWallet", "c_saveWallet",
   "f_find", "f_updateStatus", "ts_find", "ts_updateStatus",
   "tf_find", "tf_updateStatus", "tf_findWallet", "tf_saveWallet",
   "tr_find", "tr_updateStatus", "tr_findWallet", "tr_saveWallet"}

\* p handles a delivery to the webhook endpoint whose signature header is not
\* the HMAC of the body.
UnsignedDelivery(p) ==
  /\ pc[p] \in WebhookLabels
  /\ loc[p].caller = ""
  /\ ~verifySignature(loc[p].signature)

\* C13: a step taken for a webhook delivery whose signature header is not the
\* HMAC of the body changes no wallet row and no ledger row, in production and
\* outside it.
SignatureGate ==
  [][\A p \in Procs :
       (UnsignedDelivery(p) /\ pc'[p] # pc[p])
         => wallets' = wallets /\ ledger' = ledger]_vars

\* In production no handler runs for a delivery whose signature header is not
\* the HMAC of the body.
SignatureGateInProduction ==
  \A p \in Procs : isProduction => ~UnsignedDelivery(p)

\* WalletController.handleWebhook, walletController.ts lines 72-96: the
\* transport status the endpoint answers with, 200 when the service reports
\* success, 400 when the header is missing or the service reports a failure.
WebhookStatusCode(r) == IF r.success THEN 200 ELSE 400

\* C14: every delivery to the webhook endpoint is answered with a 2xx transport
\* status, whether the signature is missing or invalid, the reference unknown
\* or the reconciliation failed.
WebhookAcknowledged ==
  \A p \in Procs :
    (pc[p] = "done" /\ result[p].op = "handleWebhook")
      => WebhookStatusCode(result[p]) \in 200..299

\* The row locks the unit of work of p holds.
Holds(p) == {w \in DOMAIN rowLock : rowLock[w] = p}

\* The row whose lock the next statement of p asks for.
Requests(p) ==
  IF pc[p] = "t_lockSender" THEN WalletOfUser(loc[p].senderId)
  ELSE IF pc[p] = "t_lockRecipient" THEN WalletOfNumber(loc[p].recipientWalletNumber)
  ELSE NoWallet

\* C15: transfers ask for the row locks of two wallets in one global order, so
\* that no transfer holds the lock of one wallet and asks for the other's while
\* another transfer holds that other lock and asks for the first.
FixedLockOrder ==
  \A p, q \in Procs :
    ~(/\ p # q
      /\ Requests(p) \in Holds(q)
      /\ Requests(q) \in Holds(p))

\* p has returned from a status poll that found the entry not yet success while
\* the processor reported success.
Polled(p) ==
  pc[p] = "done" /\ result[p] = [op |-> "verifyDepositStatus", success |-> TRUE,
                                 message |-> "credited"]

\* C16: when a status poll, the only call made, found the pending deposit of
\* r1 and the processor reported success, the entry is success and the owner's
\* wallet holds its earlier balance plus the verified amount, as after a
\* webhook push, in production and outside it.
PollEqualsPush ==
  LET i == FindByReference("r1") IN
    \A p \in Procs :
      (/\ calls = 1
       /\ Polled(p)
       /\ i # 0
       /\ ledger[i].type = "deposit")
      => /\ ledger[i].status = "success"
         /\ wallets[WalletOfUser(ledger[i].userId)].balance
              = InitialBalance(ledger[i].userId) + ledger[i].amount

\* C17: a success reconciliation for a reference that has no ledger entry
\* returns the failure "Transaction not found" and changes no wallet row and no
\* ledger row.
UnknownReferenceFails ==
  [][\A p \in Procs :
       (/\ pc[p] = "c_find" /\ pc'[p] # pc[p]
        /\ FindByReference(loc[p].reference) = 0)
       => /\ pc'[p] = "done"
          /\ result'[p] = [op |-> "handleWebhook", success |-> FALSE,
                           message |-> "Transaction not found"]
          /\ wallets' = wallets
          /\ ledger' = ledger]_vars

\* C17 happens: a charge.success delivery for a reference without an entry has
\* returned.
UnknownReferenceRefused ==
  \E p \in Procs :
    /\ pc[p] = "done"
    /\ result[p] = [op |-> "handleWebhook", success |-> FALSE,
                    message |-> "Transaction not found"]

\* C18: a charge.failed reconciliation changes no wallet row, and for an entry
\* that is pending it goes on from the look-up to the status write, which moves
\* the entry to failed, leaves the other entries alone and returns success.
FailedChargeRecorded ==
  [][\A p \in Procs :
       /\ (pc[p] \in {"f_find", "f_updateStatus"} /\ pc'[p] # pc[p])
            => wallets' = wallets
       /\ LET i == FindByReference(loc[p].reference) IN
            (/\ pc[p] = "f_find" /\ pc'[p] # pc[p]
             /\ i # 0
             /\ ledger[i].status = "pending")
            => pc'[p] = "f_updateStatus" /\ ledger' = ledger
       /\ LET i == loc[p].transaction IN
            (/\ pc[p] = "f_updateStatus" /\ pc'[p] # pc[p]
             /\ ledger[i].status = "pending")
            => /\ ledger' = [ledger EXCEPT ![i].status = "failed"]
               /\ result'[p] = [op |-> "handleWebhook", success |-> TRUE,
                                message |-> "Charge failed"]]_vars

\* C18 happens: a charge.failed delivery, the only call made, has returned and
\* the entry of r1, pending before, is failed.
FailedChargeReturned ==
  /\ calls = 1
  /\ \E p \in Procs :
       /\ pc[p] = "done"
       /\ result[p] = [op |-> "handleWebhook", success |-> TRUE,
                       message |-> "Charge failed"]
  /\ FindByReference("r1") # 0
  /\ ledger[FindByReference("r1")].status = "failed"

\* p has returned from a transfer.reversed delivery that was dispatched and
\* met no failing write.
Reversed(p) ==
  /\ pc[p] = "done"
  /\ result[p].op = "handleWebhook"
  /\ result[p].message \in {"Transfer reversed", NotAFunction}

\* C19: once every call has returned, and the calls were one or more
\* transfer.reversed deliveries for the withdrawal of r1, which was success,
\* the entry is reversed and the owner's wallet holds its earlier balance plus
\* the withdrawal's amount, once.
ReversalCreditsOnce ==
  LET i == FindByReference("r1") IN
    (/\ Quiescent
     /\ calls >= 1
     /\ \A p \in Procs : pc[p] = "done" => Reversed(p))
    => /\ ledger[i].status = "reversed"
       /\ wallets[WalletOfUser(ledger[i].userId)].balance
            = InitialBalance(ledger[i].userId) + ledger[i].amount

\* The step moves entry i to reversed.
BecomesReversed(i) ==
  ledger[i].status # "reversed" /\ ledger'[i].status = "reversed"

\* The step is the status write of processTransferReversed on entry i.
ReversalWrite(i) ==
  \E p \in Procs :
    pc[p] = "tr_updateStatus" /\ pc'[p] # pc[p] /\ loc[p].transaction = i

\* C20: an entry becomes reversed only if it is a withdrawal, was success just
\* before, and the step is the status write of a transfer.reversed event for it.
ReversedOnlyFromPaidWithdrawal ==
  [][\A i \in DOMAIN ledger :
       BecomesReversed(i)
         => /\ ledger[i].type = "withdrawal"
            /\ ledger[i].status = "success"
            /\ ReversalWrite(i)]_vars

\* Processor events move only withdrawal entries to reversed, and only by the
\* status write of a transfer.reversed event.
ReversedOnlyWithdrawals ==
  [][\A i \in DOMAIN ledger :
       BecomesReversed(i) => ledger[i].type = "withdrawal" /\ ReversalWrite(i)]_vars

-----------------------------------------------------------------------------
\* Two deposits u1 has requested and not yet been credited for.
ParallelRefs == {"r1", "r2"}

\* The database after createDepositTransaction for r1 and for r2, both of u1.
InitParallel ==
  InitWith({<<PendingRow("u1", "deposit", 4, "r1"), PendingRow("u1", "deposit", 4, "r2")>>})

\* Deliveries of charge.success for the two references and the steps of
\* processSuccessfulCharge.
ParallelStep(p) ==
  \/ \E r \in ParallelRefs, g \in Signatures :
       \E a \in DeliveredAmounts(g) : handleWebhook(p, "charge.success", r, a, g)
  \/ c_find(p)
  \/ c_updateStatus(p)
  \/ c_findWallet(p)
  \/ \E f \in BOOLEAN : c_saveWallet(p, f)

NextParallel == \E p \in Procs : ParallelStep(p)

\* Success reconciliations for two pending deposits of one owner.
SpecParallel == InitParallel /\ [][NextParallel]_vars

\* C21: when two charge.success deliveries, the only calls made, each carrying
\* the amount the processor signed, have both returned success and the entries
\* of r1 and r2 are both success (one delivery was for each reference), the
\* owner's wallet holds its earlier balance plus both amounts.
ParallelReconciliation ==
  LET i == FindByReference("r1")
      j == FindByReference("r2")
  IN (/\ isProduction
      /\ Quiescent
      /\ calls = 2
      /\ \A p \in Procs : Charged(p)
      /\ ledger[i].status = "success"
      /\ ledger[j].status = "success")
     => wallets[WalletOfUser(ledger[i].userId)].balance
          = InitialBalance(ledger[i].userId) + ledger[i].amount + ledger[j].amount

-----------------------------------------------------------------------------
\* Amounts debitWallet and creditWallet are called with: 1 and 2 minor units.
PrimitiveAmounts == {2, 4}

\* A row written by debitWallet: a success withdrawal with no reference.
DebitRow(owner, amount) ==
  [userId |-> owner, type |-> "withdrawal", amount |-> Decimal2(amount),
   status |-> "success", reference |-> NoRef,
   senderWalletNumber |-> NoWallet, recipientWalletNumber |-> NoWallet]

\* debitWallet, walletService.ts lines 215-224: getWalletByUserId, a plain
\* SELECT, and the balance check on the value read.
debitWallet(p, userId, amount) ==
  /\ CanStart(p)
  /\ calls' = calls + 1
  /\ LET w == WalletOfUser(userId)
         args == [InitLoc EXCEPT !.senderId = userId, !.amount = amount]
     IN IF w = NoWallet \/ Insufficient(wallets[w].balance, amount)
          THEN /\ pc' = [pc EXCEPT ![p] = "done"]
               /\ loc' = [loc EXCEPT ![p] = args]
               /\ result' = [result EXCEPT ![p] =
                    [op |-> "debitWallet", success |-> FALSE,
                     message |-> IF w = NoWallet THEN "Wallet not found"
                                 ELSE "Insufficient balance"]]
          ELSE /\ pc' = [pc EXCEPT ![p] = "dw_save"]
               /\ loc' = [loc EXCEPT ![p] =
                    [args EXCEPT !.wallet = w, !.oldBalance = wallets[w].balance]]
               /\ result' = [result EXCEPT ![p] = NoResult]
  /\ UNCHANGED <<wallets, ledger, rowLock, tx, isProduction, users, apiKeys>>

\* creditWallet, lines 242-248: getWalletByUserId, a plain SELECT.
creditWallet(p, userId, amount) ==
  /\ CanStart(p)
  /\ calls' = calls + 1
  /\ LET w == WalletOfUser(userId)
         args == [InitLoc EXCEPT !.senderId = userId, !.amount = amount]
     IN IF w = NoWallet
          THEN /\ pc' = [pc EXCEPT ![p] = "done"]
               /\ loc' = [loc EXCEPT ![p] = args]
               /\ result' = [result EXCEPT ![p] =
                    [op |-> "creditWallet", success |-> FALSE,
                     message |-> "Wallet not found"]]
          ELSE /\ pc' = [pc EXCEPT ![p] = "cw_save"]
               /\ loc' = [loc EXCEPT ![p] =
                    [args EXCEPT !.wallet = w, !.oldBalance = wallets[w].balance]]
               /\ result' = [result EXCEPT ![p] = NoResult]
  /\ UNCHANGED <<wallets, ledger, rowLock, tx, isProduction, users, apiKeys>>

\* wallet.save() of debitWallet and creditWallet: an UPDATE outside a unit of
\* work, of the balance computed from the value read before; it waits for the
\* row lock and commits at once, or fails.
PrimitiveSave(p, here, next, op, balance, dbFails) ==
  /\ pc[p] = here
  /\ rowLock[loc[p].wallet] = NoProc
  /\ IF dbFails \/ ~BalanceValid(balance)
       THEN /\ UNCHANGED wallets
            /\ Return(p, op, FALSE, "write failed")
       ELSE /\ wallets' = [wallets EXCEPT ![loc[p].wallet].balance = balance]
            /\ Goto(p, next, loc[p])
  /\ UNCHANGED <<ledger, rowLock, tx, calls, isProduction, users, apiKeys>>

\* Transaction.create of debitWallet and creditWallet: an INSERT outside a unit
\* of work, after the balance is written.
PrimitiveCreate(p, here, op, row, dbFails) ==
  /\ pc[p] = here
  /\ IF dbFails \/ ~AmountValid(loc[p].amount)
       THEN /\ UNCHANGED ledger
            /\ Return(p, op, FALSE, "write failed")
       ELSE /\ ledger' = Append(ledger, row)
            /\ Return(p, op, TRUE, "")
  /\ UNCHANGED <<wallets, rowLock, tx, calls, isProduction, users, apiKeys>>

\* debitWallet, lines 226-227.
dw_save(p, dbFails) ==
  PrimitiveSave(p, "dw_save", "dw_create", "debitWallet",
                Round2(loc[p].oldBalance - loc[p].amount), dbFails)

\* debitWallet, lines 229-239.
dw_create(p, dbFails) ==
  PrimitiveCreate(p, "dw_create", "debitWallet",
                  DebitRow(loc[p].senderId, loc[p].amount), dbFails)

\* creditWallet, lines 249-250.
cw_save(p, dbFails) ==
  PrimitiveSave(p, "cw_save", "cw_create", "creditWallet",
                Round2(loc[p].oldBalance + loc[p].amount), dbFails)

\* creditWallet, lines 252-262.
cw_create(p, dbFails) ==
  PrimitiveCreate(p, "cw_create", "creditWallet",
                  CreditRow(loc[p].senderId, loc[p].amount), dbFails)

PrimitiveStep(p) ==
  \/ \E u \in Users, a \in PrimitiveAmounts : debitWallet(p, u, a)
  \/ \E u \in Users, a \in PrimitiveAmounts : creditWallet(p, u, a)
  \/ \E f \in BOOLEAN : dw_save(p, f)
  \/ \E f \in BOOLEAN : dw_create(p, f)
  \/ \E f \in BOOLEAN : cw_save(p, f)
  \/ \E f \in BOOLEAN : cw_create(p, f)

NextPrimitive == \E p \in Procs : PrimitiveStep(p)

\* Calls of debitWallet and creditWallet only.
SpecPrimitive == Init /\ [][NextPrimitive]_vars

\* p has returned from debitWallet or creditWallet with success.
PrimitiveSucceeded(p) ==
  pc[p] = "done" /\ result[p].op \in {"debitWallet", "creditWallet"} /\ result[p].success

\* C22: debits and credits on one wallet lose no update and each balance change
\* commits with its ledger entry: once every call has returned, and the calls
\* were debitWallet or creditWallet calls that all succeeded, every wallet's
\* balance is the sum of its owner's success credits minus the success debits.
LockedPrimitives ==
  (/\ Quiescent
   /\ calls >= 1
   /\ \A p \in Procs : pc[p] = "done" => PrimitiveSucceeded(p))
  => LedgerAgreement

\* A step of debitWallet or creditWallet that writes a balance is taken by a
\* process that holds the wallet's row lock.
PrimitiveWritesUnderLock ==
  [][\A p \in Procs :
       (pc[p] \in {"dw_save", "cw_save"} /\ wallets' # wallets)
         => rowLock[loc[p].wallet] = p]_vars

-----------------------------------------------------------------------------
\* transferSchema, walletController.ts line 15: amount min(100).max(10000000),
\* in the model's unit.
MinTransferAmount == 100 * 200
MaxTransferAmount == 10000000 * 200

\* transferSchema.validate on the amount of the body.
transferSchemaValid(amount) == amount >= MinTransferAmount /\ amount <= MaxTransferAmount

\* Amounts a request to the transfer endpoint may carry: 0.01, 100.00 and
\* 10000000.01.
TransferRequestAmounts == {2, MinTransferAmount, MaxTransferAmount + 2}

\* Balances that cover a transfer of the smallest amount the endpoint takes.
RequestBalances == {0, 2 * MinTransferAmount}

InitTransferRequest == InitOf(RequestBalances, {<<>>})

\* WalletController.transfer, lines 206-221: validate the body, answer 400 when
\* it is invalid, else call transferFunds.
transfer(p, senderId, wallet_number, amount) ==
  IF transferSchemaValid(amount)
    THEN transferFunds(p, senderId, wallet_number, amount)
    ELSE /\ CanStart(p)
         /\ calls' = calls + 1
         /\ pc' = [pc EXCEPT ![p] = "done"]
         /\ loc' = [loc EXCEPT ![p] = [InitLoc EXCEPT !.senderId = senderId,
                                          !.recipientWalletNumber = wallet_number,
                                          !.amount = amount]]
         /\ result' = [result EXCEPT ![p] =
              [op |-> "transfer", success |-> FALSE, message |-> "amount out of bounds"]]
         /\ UNCHANGED <<wallets, ledger, rowLock, tx, isProduction, users, apiKeys>>

TransferRequestStep(p) ==
  \/ \E u \in Users, n \in WalletNumbers, a \in TransferRequestAmounts : transfer(p, u, n, a)
  \/ t_lockSender(p)
  \/ t_lockRecipient(p)
  \/ \E f \in BOOLEAN : t_saveSender(p, f)
  \/ \E f \in BOOLEAN : t_saveRecipient(p, f)
  \/ \E f \in BOOLEAN : t_createSenderTx(p, f)
  \/ \E f \in BOOLEAN : t_createRecipientTx(p, f)
  \/ t_commit(p)
  \/ t_rollback(p)
  \/ t_deadlock(p)

NextTransferRequest == \E p \in Procs : TransferRequestStep(p)

\* Requests to the transfer endpoint.
SpecTransferRequest == InitTransferRequest /\ [][NextTransferRequest]_vars

\* The request p handles names a wallet of the sender's own.
SelfTransfer(p) ==
  /\ WalletOfNumber(loc[p].recipientWalletNumber) # NoWallet
  /\ wallets[WalletOfNumber(loc[p].recipientWalletNumber)].userId = loc[p].senderId

\* The request p handles is invalid by shape: a self-transfer or an amount
\* outside the configured bounds.
InvalidByShape(p) == SelfTransfer(p) \/ ~transferSchemaValid(loc[p].amount)

\* C23: a transfer request that is invalid by shape, a self-transfer or an
\* amount outside [100, 10000000], is rejected before any wallet row lock is
\* acquired: a process that handles such a request holds no row lock.
ValidationBeforeLocking ==
  \A p \in Procs :
    (pc[p] \in TransferLabels /\ InvalidByShape(p)) => Holds(p) = {}

\* A request with an amount outside the bounds never reaches transferFunds.
BoundsBeforeLocking ==
  \A p \in Procs :
    (pc[p] \in TransferLabels \/ Holds(p) # {}) => transferSchemaValid(loc[p].amount)

\* C24: a transferFunds call whose recipient wallet number belongs to the sender
\* returns the failure "Cannot transfer to yourself", for every balance and
\* every amount, also when the balance is lower than the amount.
SelfTransferRejected ==
  \A p \in Procs :
    (Transferred(p) /\ SelfTransfer(p))
      => result[p] = [op |-> "transferFunds", success |-> FALSE,
                      message |-> "Cannot transfer to yourself"]

\* A self-transfer changes no wallet row and no ledger row, and when the
\* sender's balance covers the amount it fails as "Cannot transfer to yourself".
SelfTransferChangesNothing ==
  [][\A p \in Procs :
       (pc[p] \in TransferLabels /\ pc'[p] # pc[p] /\ SelfTransfer(p))
         => /\ wallets' = wallets /\ ledger' = ledger
            /\ (pc'[p] = "done" /\ ~Insufficient(loc[p].senderBalance, loc[p].amount))
                 => result'[p].message = "Cannot transfer to yourself"]_vars

-----------------------------------------------------------------------------
\* depositSchema, walletController.ts line 9: amount min(100).max(500000000),
\* in the model's unit.
MinDepositAmount == 100 * 200

\* The upper bound of depositSchema in major units (200 units of the model).
MaxDepositMajor == 500000000

\* depositSchema.validate on the amount of the body.
depositSchemaValid(amount) ==
  /\ amount >= MinDepositAmount
  /\ \/ amount \div 200 < MaxDepositMajor
     \/ amount \div 200 = MaxDepositMajor /\ amount % 200 = 0

\* Amounts a request to the deposit endpoint may carry: -0.01, 0 and 100.00.
DepositRequestAmounts == {-2, 0, MinDepositAmount}

\* The handler returns with loc as given.
Answer(p, op, success, message, locals) ==
  /\ pc' = [pc EXCEPT ![p] = "done"]
  /\ loc' = [loc EXCEPT ![p] = locals]
  /\ result' = [result EXCEPT ![p] = [op |-> op, success |-> success, message |-> message]]

\* A deposit handler that reads the owner's wallet FOR UPDATE before it creates
\* the entry and calls the processor.
deposit_underLock(p, userId, amount, reference) ==
  /\ CanStart(p)
  /\ calls' = calls + 1
  /\ IF ~depositSchemaValid(amount)
       THEN /\ Answer(p, "deposit", FALSE, "amount out of bounds", InitLoc)
            /\ UNCHANGED <<ledger, rowLock>>
       ELSE IF ReferenceInUse(reference) \/ ~AmountValid(amount)
              \/ WalletOfUser(userId) = NoWallet
         THEN /\ Answer(p, "deposit", FALSE, "write failed", InitLoc)
              /\ UNCHANGED <<ledger, rowLock>>
         ELSE /\ LockFree(WalletOfUser(userId), p)
              /\ rowLock' = [rowLock EXCEPT ![WalletOfUser(userId)] = p]
              /\ ledger' = Append(ledger, PendingRow(userId, "deposit", amount, reference))
              /\ pc' = [pc EXCEPT ![p] = "d_initialize"]
              /\ loc' = [loc EXCEPT ![p] = [InitLoc EXCEPT !.reference = reference]]
              /\ result' = [result EXCEPT ![p] = NoResult]
  /\ UNCHANGED <<wallets, tx, isProduction, users, apiKeys>>

\* WalletController.deposit, lines 19-33: validate the body, insert the pending
\* entry with createDepositTransaction, then call the processor.
deposit(p, userId, amount, reference) ==
  /\ CanStart(p)
  /\ calls' = calls + 1
  /\ IF ~depositSchemaValid(amount)
       THEN /\ Answer(p, "deposit", FALSE, "amount out of bounds", InitLoc)
            /\ UNCHANGED ledger
       ELSE IF ReferenceInUse(reference) \/ ~AmountValid(amount)
         THEN /\ Answer(p, "deposit", FALSE, "write failed", InitLoc)
              /\ UNCHANGED ledger
         ELSE /\ ledger' = Append(ledger, PendingRow(userId, "deposit", amount, reference))
              /\ pc' = [pc EXCEPT ![p] = "d_initialize"]
              /\ loc' = [loc EXCEPT ![p] = [InitLoc EXCEPT !.reference = reference]]
              /\ result' = [result EXCEPT ![p] = NoResult]
  /\ UNCHANGED <<wallets, rowLock, tx, isProduction, users, apiKeys>>

\* A deposit handler that, when the processor's initialize call fails, marks
\* the entry it created failed before it answers.
d_initialize_marksFailed(p, gatewayFails) ==
  /\ pc[p] = "d_initialize"
  /\ IF gatewayFails
       THEN /\ ledger' = [ledger EXCEPT ![FindByReference(loc[p].reference)].status = "failed"]
            /\ Return(p, "deposit", FALSE, "Failed to initialize transaction")
       ELSE /\ UNCHANGED ledger
            /\ Return(p, "deposit", TRUE, "Payment initialized successfully")
  /\ UNCHANGED <<wallets, rowLock, tx, calls, isProduction, users, apiKeys>>

\* Lines 43-65: paystackService.initializeTransaction is in flight; it returns
\* or throws, and the handler answers 200 or 500.
d_initialize(p, gatewayFails) ==
  /\ pc[p] = "d_initialize"
  /\ IF gatewayFails
       THEN Return(p, "deposit", FALSE, "Failed to initialize transaction")
       ELSE Return(p, "deposit", TRUE, "Payment initialized successfully")
  /\ UNCHANGED <<wallets, ledger, rowLock, tx, calls, isProduction, users, apiKeys>>

\* WalletController.verifyDepositStatus, lines 107-134: look the entry up, answer
\* when it is missing or success, else call the processor.
v_find(p, reference) ==
  /\ CanStart(p)
  /\ calls' = calls + 1
  /\ LET i == FindByReference(reference) IN
       IF i = 0
         THEN Answer(p, "verifyDepositStatus", FALSE, "Transaction not found", InitLoc)
       ELSE IF ledger[i].status = "success"
         THEN Answer(p, "verifyDepositStatus", TRUE, "already credited", InitLoc)
       ELSE /\ pc' = [pc EXCEPT ![p] = "v_verify"]
            /\ loc' = [loc EXCEPT ![p] = [InitLoc EXCEPT !.reference = reference,
                                             !.caller = "verifyDepositStatus"]]
            /\ result' = [result EXCEPT ![p] = NoResult]
  /\ UNCHANGED <<wallets, ledger, rowLock, tx, isProduction, users, apiKeys>>

\* Lines 137-162: paystackService.verifyTransaction is in flight; it throws, or
\* it returns the processor's status and amount, and on success the handler
\* calls PaystackService.handleWebhook with 'manual-trigger-' + reference.
v_verify(p, paystackStatus, paystackAmount, gatewayFails) ==
  /\ pc[p] = "v_verify"
  /\ IF gatewayFails
       THEN Return(p, "verifyDepositStatus", FALSE, "Failed to verify transaction")
       ELSE IF paystackStatus # "success"
         THEN Return(p, "verifyDepositStatus", TRUE, "not credited")
       ELSE IF SignatureFailure("manual-trigger-") # ""
         THEN Return(p, "verifyDepositStatus", TRUE, "credited")
       ELSE Goto(p, "c_find", [loc[p] EXCEPT !.event = "charge.success",
                                              !.amount = paystackAmount,
                                              !.signature = "manual-trigger-"])
  /\ UNCHANGED <<wallets, ledger, rowLock, tx, calls, isProduction, users, apiKeys>>

\* Deposits, status polls and the credit they lead to, next to transfers from
\* u1 to the wallet of u2.
GatewayStep(p) ==
  \/ \E u \in Users, a \in DepositRequestAmounts, r \in ParallelRefs : deposit(p, u, a, r)
  \/ \E f \in BOOLEAN : d_initialize(p, f)
  \/ \E r \in ParallelRefs : v_find(p, r)
  \/ \E st \in PaystackStatuses, a \in WebhookAmounts, f \in BOOLEAN : v_verify(p, st, a, f)
  \/ c_find(p)
  \/ c_updateStatus(p)
  \/ c_findWallet(p)
  \/ \E f \in BOOLEAN : c_saveWallet(p, f)
  \/ \E a \in TransferAmounts : transferFunds(p, "u1", "w2", a)
  \/ t_lockSender(p)
  \/ t_lockRecipient(p)
  \/ \E f \in BOOLEAN : t_saveSender(p, f)
  \/ \E f \in BOOLEAN : t_saveRecipient(p, f)
  \/ \E f \in BOOLEAN : t_createSenderTx(p, f)
  \/ \E f \in BOOLEAN : t_createRecipientTx(p, f)
  \/ t_commit(p)
  \/ t_rollback(p)

NextGateway == \E p \in Procs : GatewayStep(p)

\* Calls that reach the payment processor, and transfers.
SpecGateway == Init /\ [][NextGateway]_vars

\* A call of initializeTransaction or verifyTransaction by p is in flight.
GatewayInFlight(p) == pc[p] \in {"d_initialize", "v_verify"}

\* C25: while a call to the payment processor (initializeTransaction or
\* verifyTransaction) is in flight, the calling process holds no wallet row
\* lock and has no write buffered in a unit of work.
GatewayOutsideLocks ==
  \A p \in Procs : GatewayInFlight(p) => (Holds(p) = {} /\ tx[p] = EmptyTx)

\* C25 happens: a processor call is in flight while a transfer on another
\* process holds a wallet row lock.
GatewayCallDuringTransfer ==
  \E p, q \in Procs : GatewayInFlight(p) /\ Holds(q) # {}

-----------------------------------------------------------------------------
\* The operations that insert an entry with a reference.
CreateOps == {"createDepositTransaction", "createWithdrawalTransaction"}

\* The step is a call of one of them on p that returns a failure: it counts
\* as a call, leaves p returned from the operation without success, and moves
\* no other process.
CreateRefused(p) ==
  /\ calls' = calls + 1
  /\ pc'[p] = "done" /\ result'[p].op \in CreateOps /\ ~result'[p].success
  /\ \A q \in Procs \ {p} : pc'[q] = pc[q] /\ result'[q] = result[q]

\* No two entries of the given ledger carry the same reference.
ReferencesUnique(rows) ==
  \A i, j \in DOMAIN rows :
    (i # j /\ rows[i].reference # NoRef) => rows[i].reference # rows[j].reference

\* C26: after every step no two ledger entries carry the same non-null
\* reference; a step that adds an entry with a reference adds one whose
\* reference was not in use, and a call that creates an entry and fails leaves
\* the ledger as it was.
UniqueReference ==
  [][/\ ReferencesUnique(ledger')
     /\ \A i \in DOMAIN ledger' \ DOMAIN ledger :
          ledger'[i].reference # NoRef => ~ReferenceInUse(ledger'[i].reference)
     /\ \A p \in Procs : CreateRefused(p) => ledger' = ledger]_vars

\* C26 happens: a create call was refused while the reference r1 is in use.
DuplicateReferenceRefused ==
  /\ ReferenceInUse("r1")
  /\ \E p \in Procs :
       pc[p] = "done" /\ result[p].op \in CreateOps /\ ~result[p].success

-----------------------------------------------------------------------------
\* Emails an onboarding request may carry: that of u1, who is onboarded, and
\* those of u3 and u4, who are not.
Emails == {"u1", "u3", "u4"}

\* The message of Sequelize's UniqueConstraintError.
ValidationError == "Validation error"

\* AuthController.googleCallback, lines 353-359, and testLogin, line 451:
\* User.findOne({ where: { email } }).
Onboard(p, op, email) ==
  /\ CanStart(p)
  /\ calls' = calls + 1
  /\ pc' = [pc EXCEPT ![p] = IF email \in users THEN "o_findWallet" ELSE "o_createUser"]
  /\ loc' = [loc EXCEPT ![p] = [InitLoc EXCEPT !.senderId = email, !.caller = op]]
  /\ result' = [result EXCEPT ![p] = NoResult]
  /\ UNCHANGED <<wallets, ledger, rowLock, tx, isProduction, users, apiKeys>>

\* AuthController.googleCallback, lines 321-359, once Google has verified the
\* code and returned the payload.
googleCallback(p, email) == Onboard(p, "googleCallback", email)

\* AuthController.testLogin, lines 438-451.
testLogin(p, email) == Onboard(p, "testLogin", email)

\* User.create, lines 360-365 and 454-457: an INSERT outside a unit of work;
\* the unique index on email refuses a second row for the email.
o_createUser(p, dbFails) ==
  /\ pc[p] = "o_createUser"
  /\ IF dbFails
       THEN Return(p, loc[p].caller, FALSE, "write failed") /\ UNCHANGED users
     ELSE IF loc[p].senderId \in users
       THEN Return(p, loc[p].caller, FALSE, ValidationError) /\ UNCHANGED users
     ELSE /\ users' = users \cup {loc[p].senderId}
          /\ Goto(p, "o_createWallet", loc[p])
  /\ UNCHANGED <<wallets, ledger, rowLock, tx, calls, isProduction, apiKeys>>

\* Wallet.create with generateWalletNumber(), lines 369-374 and 460-464: the
\* number is a random draw, the INSERT runs outside a unit of work, and the
\* unique index on wallet_number refuses a number another wallet has.
o_createWallet(p, walletNumber, dbFails) ==
  /\ pc[p] = "o_createWallet"
  /\ IF dbFails
       THEN /\ Return(p, loc[p].caller, FALSE, "write failed")
            /\ UNCHANGED <<wallets, rowLock>>
     ELSE IF walletNumber \in DOMAIN wallets
       THEN /\ Return(p, loc[p].caller, FALSE, ValidationError)
            /\ UNCHANGED <<wallets, rowLock>>
     ELSE /\ wallets' = wallets @@ (walletNumber :> [userId |-> loc[p].senderId,
                                                      balance |-> 0])
          /\ rowLock' = rowLock @@ (walletNumber :> NoProc)
          /\ Goto(p, "o_findWallet", loc[p])
  /\ UNCHANGED <<ledger, tx, calls, isProduction, users, apiKeys>>

\* Lines 393 and 468: Wallet.findOne({ where: { userId } }) and the answer,
\* with the wallet or with wallet: null.
o_findWallet(p) ==
  /\ pc[p] = "o_findWallet"
  /\ Return(p, loc[p].caller, TRUE,
            IF WalletOfUser(loc[p].senderId) = NoWallet THEN "wallet: null" ELSE "wallet")
  /\ UNCHANGED <<wallets, ledger, rowLock, tx, calls, isProduction, users, apiKeys>>

OnboardStep(p) ==
  \/ \E e \in Emails : googleCallback(p, e)
  \/ \E e \in Emails : testLogin(p, e)
  \/ \E f \in BOOLEAN : o_createUser(p, f)
  \/ \E n \in WalletNumbers, f \in BOOLEAN : o_createWallet(p, n, f)
  \/ o_findWallet(p)

NextOnboard == \E p \in Procs : OnboardStep(p)

\* Onboarding requests only.
SpecOnboard == Init /\ [][NextOnboard]_vars

\* The wallets of an owner.
WalletsOf(u) == {w \in DOMAIN wallets : wallets[w].userId = u}

\* Every process has returned.
AllReturned == \A p \in Procs : pc[p] \in {"idle", "done"}

\* C27: once every onboarding request has returned, whether requests ran
\* concurrently for one email or a step of one failed, every existing user owns
\* exactly one wallet.
OneWalletPerOwner ==
  AllReturned => \A u \in users : Cardinality(WalletsOf(u)) = 1

\* No owner ever has a second wallet.
NoSecondWallet == \A u \in Users \cup Emails : Cardinality(WalletsOf(u)) <= 1

\* The operations that onboard an owner.
OnboardOps == {"googleCallback", "testLogin"}

\* C28: a generated wallet number that another wallet has is replaced before it
\* is assigned: once every onboarding request has returned and no write failed
\* in the database, every owner a request was made for holds one wallet, with a
\* number no other wallet has.
NumberCollisionHandled ==
  (/\ AllReturned
   /\ \A q \in Procs : result[q].message # "write failed")
  => \A p \in Procs :
       (pc[p] = "done" /\ result[p].op \in OnboardOps)
         => Cardinality(WalletsOf(loc[p].senderId)) = 1

-----------------------------------------------------------------------------
\* Amounts a call may carry when nothing has validated them: -0.01, 0 and 0.01.
UnvalidatedAmounts == {-2, 0, 2}

\* The database before any request.
InitAmount == InitWith({<<>>})

\* Transfers, entry creations and deposit requests with amounts of either sign.
AmountStep(p) ==
  \/ \E u \in {"u1", "u2"}, n \in WalletNumbers, a \in UnvalidatedAmounts :
       transferFunds(p, u, n, a)
  \/ t_lockSender(p)
  \/ t_lockRecipient(p)
  \/ \E f \in BOOLEAN : t_saveSender(p, f)
  \/ \E f \in BOOLEAN : t_saveRecipient(p, f)
  \/ \E f \in BOOLEAN : t_createSenderTx(p, f)
  \/ \E f \in BOOLEAN : t_createRecipientTx(p, f)
  \/ t_commit(p)
  \/ t_rollback(p)
  \/ t_deadlock(p)
  \/ \E a \in UnvalidatedAmounts, r \in Refs : createDepositTransaction(p, "u1", a, r)
  \/ \E a \in UnvalidatedAmounts, r \in Refs : createWithdrawalTransaction(p, "u1", a, r)
  \/ \E a \in DepositRequestAmounts, r \in ParallelRefs : deposit(p, "u1", a, r)
  \/ \E f \in BOOLEAN : d_initialize(p, f)

NextAmount == \E p \in Procs : AmountStep(p)

\* Every operation that adds a ledger entry for a request, with amounts of
\* either sign.
SpecAmount == InitAmount /\ [][NextAmount]_vars

\* C29: after every step every ledger entry has an amount above zero; a step of
\* a transferFunds call with an amount of zero or less changes no wallet row
\* and no ledger row; and a step that changes a balance is the commit of a
\* transfer of an amount above zero, so that no deposit or withdrawal request
\* changes one.
PositiveAmounts ==
  [][/\ \A i \in DOMAIN ledger' : ledger'[i].amount > 0
     /\ \A p \in Procs :
          (pc[p] \in TransferLabels /\ pc'[p] # pc[p] /\ loc[p].amount <= 0)
            => wallets' = wallets /\ ledger' = ledger
     /\ wallets' # wallets
          => \E p \in Procs : pc[p] = "t_commit" /\ pc'[p] = "done" /\ loc[p].amount > 0]_vars

\* C29 happens: a transfer of an amount of zero or less got as far as its first
\* ledger row and was refused there; entry creations have been refused too.
NonPositiveRefused ==
  /\ \E p \in Procs :
       /\ pc[p] = "t_rollback"
       /\ loc[p].amount <= 0
       /\ loc[p].message = "write failed"
       /\ DOMAIN tx[p].balances # {}
  /\ \E q \in Procs :
       pc[q] = "done" /\ result[q].op \in CreateOps \cup {"deposit"} /\ ~result[q].success

-----------------------------------------------------------------------------
\* createApiKey and rolloverApiKey refuse a new key from this many active keys.
MaxActiveKeys == 5

\* A row of table api_keys; expired stands for new Date() > expiresAt.
KeyRow(userId, isActive, expired) ==
  [userId |-> userId, isActive |-> isActive, expired |-> expired]

\* n rows of active keys of one user, not expired.
ActiveKeys(userId, n) == [i \in 1..n |-> KeyRow(userId, TRUE, FALSE)]

\* The database after u1 has created four or five keys, of which the first has
\* expired since.
InitKeys ==
  /\ wallets = ("w1" :> [userId |-> "u1", balance |-> 0])
                 @@ ("w2" :> [userId |-> "u2", balance |-> 0])
  /\ ledger = <<>>
  /\ rowLock = [w \in {"w1", "w2"} |-> NoProc]
  /\ pc = [p \in Procs |-> "idle"]
  /\ loc = [p \in Procs |-> InitLoc]
  /\ tx = [p \in Procs |-> EmptyTx]
  /\ result = [p \in Procs |-> NoResult]
  /\ calls = 0
  /\ isProduction \in BOOLEAN
  /\ users = {"u1", "u2"}
  /\ \E n \in {3, 4} : apiKeys = <<KeyRow("u1", TRUE, TRUE)>> \o ActiveKeys("u1", n)

\* Key ids a request may name: the expired key, an active one, and none.
KeyIds == {1, 2, 9}

\* ApiKey.count({ where: { userId, isActive: true, expiresAt > now } }).
ActiveKeysCount(userId) ==
  Cardinality({i \in DOMAIN apiKeys :
                 /\ apiKeys[i].userId = userId
                 /\ apiKeys[i].isActive
                 /\ ~apiKeys[i].expired})

\* ApiKey.findOne({ where: { id, userId } }): the id of the row, 0 for null.
FindKey(userId, keyId) ==
  IF keyId \in DOMAIN apiKeys /\ apiKeys[keyId].userId = userId THEN keyId ELSE 0

TooManyKeys == "Maximum of 5 active API keys allowed per user"

\* Time passes the expiresAt of key i.
KeyExpires(i) ==
  /\ i \in DOMAIN apiKeys
  /\ ~apiKeys[i].expired
  /\ apiKeys' = [apiKeys EXCEPT ![i].expired = TRUE]
  /\ UNCHANGED <<wallets, ledger, rowLock, pc, loc, tx, result, calls, isProduction, users>>

\* createApiKey, part_008 lines 385-406: the count of active keys and the check.
createApiKey(p, userId) ==
  /\ CanStart(p)
  /\ calls' = calls + 1
  /\ LET args == [InitLoc EXCEPT !.senderId = userId] IN
       IF ActiveKeysCount(userId) >= MaxActiveKeys
         THEN Answer(p, "createApiKey", FALSE, TooManyKeys, args)
         ELSE /\ pc' = [pc EXCEPT ![p] = "k_create"]
              /\ loc' = [loc EXCEPT ![p] = args]
              /\ result' = [result EXCEPT ![p] = NoResult]
  /\ UNCHANGED <<wallets, ledger, rowLock, tx, isProduction, users, apiKeys>>

\* ApiKey.create of createApiKey and rolloverApiKey: an INSERT of an active key
\* that expires later.
KeyCreate(p, dbFails) ==
  IF dbFails
    THEN UNCHANGED apiKeys
    ELSE apiKeys' = Append(apiKeys, KeyRow(loc[p].senderId, TRUE, FALSE))

\* createApiKey, lines 427-447: ApiKey.create.
k_create(p, dbFails) ==
  /\ pc[p] = "k_create"
  /\ KeyCreate(p, dbFails)
  /\ Return(p, "createApiKey", ~dbFails, IF dbFails THEN "write failed" ELSE "")
  /\ UNCHANGED <<wallets, ledger, rowLock, tx, calls, isProduction, users>>

\* rolloverApiKey, lines 482-498: find the old key, which must be expired or
\* inactive.
rolloverApiKey(p, userId, expiredKeyId) ==
  /\ CanStart(p)
  /\ calls' = calls + 1
  /\ LET k == FindKey(userId, expiredKeyId)
         args == [InitLoc EXCEPT !.senderId = userId]
     IN IF k = 0
          THEN Answer(p, "rolloverApiKey", FALSE, "API key not found", args)
        ELSE IF ~apiKeys[k].expired /\ apiKeys[k].isActive
          THEN Answer(p, "rolloverApiKey", FALSE, "Key must be expired to rollover", args)
        ELSE /\ pc' = [pc EXCEPT ![p] = "r_count"]
             /\ loc' = [loc EXCEPT ![p] =
                  [args EXCEPT !.key = k, !.keyIsActive = apiKeys[k].isActive]]
             /\ result' = [result EXCEPT ![p] = NoResult]
  /\ UNCHANGED <<wallets, ledger, rowLock, tx, isProduction, users, apiKeys>>

\* rolloverApiKey, lines 500-513: the count of active keys and the check.
r_count(p) ==
  /\ pc[p] = "r_count"
  /\ IF ActiveKeysCount(loc[p].senderId) >= MaxActiveKeys
       THEN Return(p, "rolloverApiKey", FALSE, TooManyKeys)
       ELSE Goto(p, "r_create", loc[p])
  /\ UNCHANGED <<wallets, ledger, rowLock, tx, calls, isProduction, users, apiKeys>>

\* rolloverApiKey, lines 520-530: ApiKey.create.
r_create(p, dbFails) ==
  /\ pc[p] = "r_create"
  /\ KeyCreate(p, dbFails)
  /\ IF dbFails
       THEN Return(p, "rolloverApiKey", FALSE, "write failed")
       ELSE Goto(p, "r_deactivate", loc[p])
  /\ UNCHANGED <<wallets, ledger, rowLock, tx, calls, isProduction, users>>

\* rolloverApiKey, lines 532-539: deactivate the old key when the instance
\* found at the start is active.
r_deactivate(p, dbFails) ==
  /\ pc[p] = "r_deactivate"
  /\ IF ~loc[p].keyIsActive
       THEN UNCHANGED apiKeys /\ Return(p, "rolloverApiKey", TRUE, "")
     ELSE IF dbFails
       THEN UNCHANGED apiKeys /\ Return(p, "rolloverApiKey", FALSE, "write failed")
     ELSE /\ apiKeys' = [apiKeys EXCEPT ![loc[p].key].isActive = FALSE]
          /\ Return(p, "rolloverApiKey", TRUE, "")
  /\ UNCHANGED <<wallets, ledger, rowLock, tx, calls, isProduction, users>>

\* revokeApiKey, lines 544-555: find the key.
revokeApiKey(p, userId, keyId) ==
  /\ CanStart(p)
  /\ calls' = calls + 1
  /\ LET k == FindKey(userId, keyId)
         args == [InitLoc EXCEPT !.senderId = userId]
     IN IF k = 0
          THEN Answer(p, "revokeApiKey", FALSE, "API key not found", args)
          ELSE /\ pc' = [pc EXCEPT ![p] = "rk_save"]
               /\ loc' = [loc EXCEPT ![p] = [args EXCEPT !.key = k]]
               /\ result' = [result EXCEPT ![p] = NoResult]
  /\ UNCHANGED <<wallets, ledger, rowLock, tx, isProduction, users, apiKeys>>

\* revokeApiKey, lines 557-559: key.isActive = false and save().
rk_save(p, dbFails) ==
  /\ pc[p] = "rk_save"
  /\ IF dbFails
       THEN UNCHANGED apiKeys /\ Return(p, "revokeApiKey", FALSE, "write failed")
       ELSE /\ apiKeys' = [apiKeys EXCEPT ![loc[p].key].isActive = FALSE]
            /\ Return(p, "revokeApiKey", TRUE, "")
  /\ UNCHANGED <<wallets, ledger, rowLock, tx, calls, isProduction, users>>

KeyStep(p) ==
  \/ \E u \in {"u1", "u2"} : createApiKey(p, u)
  \/ \E f \in BOOLEAN : k_create(p, f)
  \/ \E u \in {"u1", "u2"}, k \in KeyIds : rolloverApiKey(p, u, k)
  \/ r_count(p)
  \/ \E f \in BOOLEAN : r_create(p, f)
  \/ \E f \in BOOLEAN : r_deactivate(p, f)
  \/ \E u \in {"u1", "u2"}, k \in KeyIds : revokeApiKey(p, u, k)
  \/ \E f \in BOOLEAN : rk_save(p, f)

NextKeys ==
  \/ \E p \in Procs : KeyStep(p)
  \/ \E i \in 1..(MaxActiveKeys + MaxCalls) : KeyExpires(i)

\* Calls of the API key service, and the passing of time.
SpecKeys == InitKeys /\ [][NextKeys]_vars

\* C30: no user has more than 5 keys that are active and not expired, after any
\* createApiKey, rolloverApiKey and revokeApiKey calls, concurrent or not.
ActiveKeyLimit ==
  \A u \in Users : ActiveKeysCount(u) <= MaxActiveKeys

-----------------------------------------------------------------------------
\* The step is the one by which rolloverApiKey on p accepts the key it found.
RolloverAccepted(p) == pc[p] # "r_count" /\ pc'[p] = "r_count"

\* C31: rolloverApiKey goes on to issue a replacement only for a key that
\* belongs to the caller and is expired; for a key that has not yet expired,
\* active or revoked, it fails and creates no key.
RolloverOnlyExpired ==
  [][\A p \in Procs :
       RolloverAccepted(p)
         => /\ apiKeys[loc'[p].key].userId = loc'[p].senderId
            /\ apiKeys[loc'[p].key].expired]_vars

\* rolloverApiKey issues a replacement only for a key of the caller's that is
\* expired or inactive, and refuses one that is active and not expired.
RolloverOnlyExpiredOrInactive ==
  [][\A p \in Procs :
       RolloverAccepted(p)
         => /\ apiKeys[loc'[p].key].userId = loc'[p].senderId
            /\ apiKeys[loc'[p].key].expired \/ ~apiKeys[loc'[p].key].isActive]_vars

-----------------------------------------------------------------------------
\* What a committed transfer of process q adds to the balance of wallet w.
TransferDelta(q, w) ==
  (IF loc[q].recipientWalletNumber = w THEN loc[q].amount ELSE 0)
    - (IF WalletOfUser(loc[q].senderId) = w THEN loc[q].amount ELSE 0)

\* C32: when a success reconciliation for the deposit of reference r1 and a
\* committed transfer of a two-decimal amount that debits or credits the
\* owner's wallet, the only calls made, have both returned, the wallet holds
\* its earlier balance plus the deposit's amount and plus or minus the
\* transfer's amount: neither effect is lost.
NoLostUpdateDepositTransfer ==
  LET i == FindByReference("r1") IN
    \A p, q \in Procs :
      (/\ p # q
       /\ isProduction
       /\ Quiescent
       /\ Charged(p)
       /\ Committed(q) /\ WholeAmount(loc[q].amount)
       /\ i # 0
       /\ ledger[i].type = "deposit")
      => LET w == WalletOfUser(ledger[i].userId) IN
           wallets[w].balance
             = InitialBalance(ledger[i].userId) + ledger[i].amount + TransferDelta(q, w)

-----------------------------------------------------------------------------
\* The step is the one by which processSuccessfulCharge on p, having looked its
\* entry up, goes on to mark it success and credit the wallet.
ChargeAccepted(p) == pc[p] = "c_find" /\ pc'[p] = "c_updateStatus"

\* C33: a success reconciliation goes on to credit the wallet only for an
\* entry that is pending, never for one that is failed, and a deposit entry
\* that is success stays success whatever is delivered afterwards.
CreditOnlyWhenPending ==
  [][/\ \A p \in Procs :
          ChargeAccepted(p) => ledger[loc'[p].transaction].status = "pending"
     /\ \A i \in DOMAIN ledger :
          (ledger[i].type = "deposit" /\ ledger[i].status = "success")
            => ledger'[i].status = "success"]_vars

\* A success reconciliation never goes on to credit for an entry that is
\* already success.
CreditNeverWhenSuccess ==
  [][\A p \in Procs :
       ChargeAccepted(p) => ledger[loc'[p].transaction].status # "success"]_vars

-----------------------------------------------------------------------------
\* The credit p applies is the amount recorded on the entry p reconciles.
CreditIsLedgerAmount(p) ==
  wallets'[loc[p].wallet].balance
    = loc[p].oldBalance + ledger[loc[p].transaction].amount

\* C34: every credit a success reconciliation applies to a wallet adds to the
\* balance it read the amount recorded on the ledger entry it reconciles, the
\* amount given at deposit creation.
CreditMatchesLedgerEntry ==
  [][\A p \in Procs : ChargeCredit(p) => CreditIsLedgerAmount(p)]_vars

\* In production every credit adds the amount recorded on the ledger entry,
\* the processor reporting for a reference the amount it was initialised with.
CreditMatchesLedgerEntryInProduction ==
  [][\A p \in Procs : (isProduction /\ ChargeCredit(p)) => CreditIsLedgerAmount(p)]_vars

-----------------------------------------------------------------------------
\* The events the processor sends about a payout.
TransferEvents == {"transfer.success", "transfer.failed", "transfer.reversed"}

\* The database before the first modelled call: u1 has requested no withdrawal
\* or one of 2 minor units, for which createWithdrawalTransaction moved no
\* balance.
InitRefund == InitWith({<<>>, <<PendingRow("u1", "withdrawal", 4, "r1")>>})

\* Withdrawal requests, debits, and the processor's events about payouts.
RefundStep(p) ==
  \/ \E u \in Users, a \in RequestAmounts, r \in Refs :
       createWithdrawalTransaction(p, u, a, r)
  \/ \E u \in Users, a \in PrimitiveAmounts : debitWallet(p, u, a)
  \/ \E f \in BOOLEAN : dw_save(p, f)
  \/ \E f \in BOOLEAN : dw_create(p, f)
  \/ \E e \in TransferEvents, r \in Refs, g \in Signatures :
       \E a \in DeliveredAmounts(g) : handleWebhook(p, e, r, a, g)
  \/ ts_find(p)
  \/ ts_updateStatus(p)
  \/ tf_find(p)
  \/ tf_updateStatus(p)
  \/ tf_findWallet(p)
  \/ \E f \in BOOLEAN, str \in BOOLEAN : tf_saveWallet(p, f, str)
  \/ tr_find(p)
  \/ tr_updateStatus(p)
  \/ tr_findWallet(p)
  \/ \E f \in BOOLEAN, str \in BOOLEAN : tr_saveWallet(p, f, str)

NextRefund == \E p \in Procs : RefundStep(p)

\* Withdrawals and their refunds only.
SpecRefund == InitRefund /\ [][NextRefund]_vars

-----------------------------------------------------------------------------
\* The statements of transferFunds after sequelize.transaction(): each runs as
\* soon as the promise it awaits settles.
TransferRun(p) ==
  \/ t_lockSender(p)
  \/ t_lockRecipient(p)
  \/ \E f \in BOOLEAN : t_saveSender(p, f)
  \/ \E f \in BOOLEAN : t_saveRecipient(p, f)
  \/ \E f \in BOOLEAN : t_createSenderTx(p, f)
  \/ \E f \in BOOLEAN : t_createRecipientTx(p, f)
  \/ t_commit(p)
  \/ t_rollback(p)
  \/ t_deadlock(p)

\* Transfers only, on wallets no request is pending for.  The event loop runs
\* the continuation of every await that has settled, and the database grants a
\* row lock once its holder has ended or breaks the wait when two units of work
\* wait for each other: no transfer that can take a step waits forever.
SpecTransferFair ==
  /\ InitAmount
  /\ [][NextTransfer]_vars
  /\ \A p \in Procs : WF_vars(TransferRun(p))

\* The unit of work of p is over: nothing buffered, no row lock held.
UnitOfWorkEnded(p) ==
  /\ tx[p] = EmptyTx
  /\ \A w \in DOMAIN rowLock : rowLock[w] # p

\* The step by which transferFunds on p returns.
TransferReturns(p) == pc[p] \in TransferLabels /\ pc'[p] = "done"

\* C36: every transferFunds call that has started returns; when it has
\* returned its unit of work is over, with nothing buffered and no row lock
\* held; it returns success = true exactly when the step published all the
\* writes of the unit of work and success = false exactly when the step dropped
\* them, leaving wallets and ledger as they were.
TransferEndsClean ==
  /\ \A p \in Procs : (pc[p] \in TransferLabels) ~> (pc[p] = "done")
  /\ [](\A p \in Procs : Transferred(p) => UnitOfWorkEnded(p))
  /\ [][\A p \in Procs :
          TransferReturns(p)
            => IF result'[p].success
                 THEN /\ pc[p] = "t_commit"
                      /\ wallets' = Published(p)
                      /\ ledger' = ledger \o tx[p].rows
                 ELSE /\ pc[p] = "t_rollback"
                      /\ wallets' = wallets
                      /\ ledger' = ledger]_vars

\* C36 happens: one transfer has committed and another, which had taken its
\* row locks and buffered a write, has been rolled back.
TransferCommittedAndRolledBack ==
  \E p, q \in Procs :
    /\ Committed(p)
    /\ Transferred(q)
    /\ result[q] = [op |-> "transferFunds", success |-> FALSE, message |-> "write failed"]
    /\ UnitOfWorkEnded(p) /\ UnitOfWorkEnded(q)

-----------------------------------------------------------------------------
\* The step is the one by which the deposit handler on p, having validated the
\* request, inserts its entry and goes on to call the processor.
DepositAccepted(p) == pc[p] \in {"idle", "done"} /\ pc'[p] = "d_initialize"

\* The step is the one by which the deposit handler on p answers after the
\* processor's initialize call returned or failed.
DepositAnswered(p) == pc[p] = "d_initialize" /\ pc'[p] = "done"

\* The step is a deposit request on p that is answered before any entry is
\* written: no other process moves and p returns from deposit.
DepositRefused(p) ==
  /\ calls' = calls + 1
  /\ pc[p] \in {"idle", "done"} /\ pc'[p] = "done"
  /\ result'[p].op = "deposit"
  /\ \A q \in Procs \ {p} : pc'[q] = pc[q] /\ result'[q] = result[q]

\* C37: a step of the deposit handler changes no wallet row; the step that
\* accepts the request adds exactly one ledger entry, a pending deposit whose
\* reference no entry had; a refused request adds none; and the step that
\* answers after the processor's initialize call, failed or not, leaves the
\* ledger as it is, the entry still there for a later webhook or poll, and
\* answers with the failure when the call failed.
DepositMovesNoMoney ==
  [][\A p \in Procs :
       /\ DepositAccepted(p)
            => /\ wallets' = wallets
               /\ Len(ledger') = Len(ledger) + 1
               /\ SubSeq(ledger', 1, Len(ledger)) = ledger
               /\ LET row == ledger'[Len(ledger')] IN
                    /\ row.type = "deposit"
                    /\ row.status = "pending"
                    /\ row.reference = loc'[p].reference
                    /\ row.reference # NoRef
                    /\ ~ReferenceInUse(row.reference)
       /\ DepositRefused(p)
            => wallets' = wallets /\ ledger' = ledger
       /\ DepositAnswered(p)
            => /\ wallets' = wallets
               /\ ledger' = ledger
               /\ FindByReference(loc[p].reference) # 0
               /\ result'[p].op = "deposit"
               /\ ~result'[p].success
                    => result'[p].message = "Failed to initialize transaction"]_vars

\* C37 happens: the deposit of reference r2 was answered with the failure of
\* the processor's initialize call, and a status poll, the only other call,
\* has since reconciled its entry to success and credited the owner.
FailedInitializationReconciled ==
  LET i == FindByReference("r2") IN
    /\ \E p \in Procs :
         /\ pc[p] = "done"
         /\ result[p] = [op |-> "deposit", success |-> FALSE,
                         message |-> "Failed to initialize transaction"]
    /\ i # 0
    /\ ledger[i].status = "success"
    /\ WalletOfUser(ledger[i].userId) # NoWallet
    /\ wallets[WalletOfUser(ledger[i].userId)].balance
         > InitialBalance(ledger[i].userId)

-----------------------------------------------------------------------------
\* The step is the one by which the status poll on p, having asked the
\* processor, answers with credited = true.
PollAnswersCredited(p) ==
  /\ pc[p] \in {"v_verify", "c_find", "c_updateStatus", "c_findWallet", "c_saveWallet"}
  /\ pc'[p] = "done"
  /\ result'[p] = [op |-> "verifyDepositStatus", success |-> TRUE, message |-> "credited"]

\* C38: when the status poll answers with credited = true, the entry of its
\* reference is success and either the poll's own reconciliation has just
\* written the credit to the owner's wallet or it found the entry already
\* success; a poll whose reconciliation was rejected or failed does not answer
\* credited = true.
PollCreditedTruthful ==
  [][\A p \in Procs :
       PollAnswersCredited(p)
         => LET i == FindByReference(loc[p].reference) IN
              /\ i # 0
              /\ ledger'[i].status = "success"
              /\ \/ pc[p] = "c_find"
                 \/ pc[p] = "c_saveWallet" /\ wallets' # wallets]_vars

-----------------------------------------------------------------------------
\* A value a DECIMAL(20,2) balance may hold: not negative, two fractional digits.
TwoDecimal(v) == v >= 0 /\ WholeAmount(v)

\* Every committed balance is not negative and has two fractional digits.
BalancesTwoDecimal == \A w \in DOMAIN wallets : TwoDecimal(wallets[w].balance)

\* The step commits on p a transfer of an amount with a third fractional digit.
FractionalCommitOf(p) ==
  pc[p] = "t_commit" /\ pc'[p] = "done" /\ ~WholeAmount(loc[p].amount)

\* C39: every step leaves every committed balance not negative and with at
\* most two fractional digits, and the commit of a transfer whose amount has a third fractional
\* digit lowers the sender's balance by exactly what it adds to the recipient's.
TwoDecimalBalances ==
  [][/\ BalancesTwoDecimal'
     /\ \A p \in Procs :
          FractionalCommitOf(p)
            => wallets[loc[p].senderWallet].balance - wallets'[loc[p].senderWallet].balance
                 = wallets'[loc[p].recipientWallet].balance
                     - wallets[loc[p].recipientWallet].balance]_vars

====
